---- MODULE Spec2Model ----
(***************************************************************************)
(* Model of the statecharts-ts interpreter.                                *)
(*                                                                         *)
(* The repository holds three generations of the engine:                   *)
(*   "sm"   createStateMachine of src/src/stateMachine.ts (states map,     *)
(*          isInitial, onEntry, onTimeout, guards, cleanup closures);      *)
(*   "v1"   createStateMachine of src/unnamed/part_008 (initialState and   *)
(*          transitionMap, single and array state);                        *)
(*   "tree" the Machine class of src/src/Machine.ts over a MachineNode     *)
(*          tree.                                                          *)
(* One behaviour of the model constructs one machine of one generation     *)
(* from one configuration and then drives it through its public API and    *)
(* the platform's timer callbacks.                                         *)
(***************************************************************************)
EXTENDS Integers, Sequences, FiniteSets, TLC

(***************************************************************************)
(* Bounds of the model.                                                    *)
(***************************************************************************)
\* largest value of the context counter the model follows
MaxCount == 3
\* largest number of subscriptions
MaxSubs == 2
\* deepest nesting of synchronous send calls the model follows
SendDepth == 3
\* largest number of live platform timers created for one state
MaxTimers == 2
\* largest number of invocations of one cleanup closure the model follows
MaxCalls == 2
\* largest number of fromJSON calls on one machine
MaxRestores == 1
MaxLate == 1

VARIABLES
    impl,           \* which generation of the engine was constructed
    cfg,            \* the configuration it was constructed from
    currentState,   \* let currentState: [arr, v]; a string is [arr |-> FALSE, v |-> <<s>>]
    context,        \* let context
    exitFn,         \* let exitFn: the cleanup closure kept (its name, and how often that closure was invoked), or NoExitFn
    subscribers,    \* const subscribers: sequence of callbacks
    timeoutIds,     \* let timeoutIds: per state "none", "live" (handle of a pending timer) or "dead" (handle of a timer that fired)
    timers,         \* the platform's pending timer callbacks, counted per state (per node of the tree)
    rootNode,       \* Machine.#rootNode: the tree built from the configuration
    active,         \* MachineNode.active of every node of the tree
    clone,          \* the machine returned by Machine.clone(): <<>> or one [root, active, timers, context];
                    \* of createStateMachine, the second machine made from the same config: <<>> or one [mode, m, config, pending, first, second]
    thrown,         \* the message of the Error the constructor threw, or that the caller's last statement threw, or "none"
    saved,          \* the string of the last toJSON() call, until it is given to fromJSON(): <<>> or one [json, currentState, context]
    trace,          \* what the last API call or timer callback invoked, in order
    last            \* the last API call or timer callback, the state it started from, whether start() was called, and how many fromJSON() calls were made

vars == <<impl, cfg, currentState, context, exitFn, subscribers, timeoutIds, timers,
          rootNode, active, clone, thrown, saved, trace, last>>

(***************************************************************************)
(* Values.                                                                 *)
(***************************************************************************)
Single(s) == [arr |-> FALSE, v |-> <<s>>]
Array(ss) == [arr |-> TRUE, v |-> ss]

Ctx(n, l) == [count |-> n, lights |-> l]

\* A Date object and a string, as values of a context property; toISOString is
\* what JSON.stringify writes for a Date (Date.prototype.toJSON)
JSDate(t) == [type |-> "Date", value |-> t]
JSString(t) == [type |-> "string", value |-> t]
toISOString(date) == JSString(date.value)

\* exitFn: undefined, or a closure returned by an action
NoExitFn == [name |-> "none", calls |-> 0]
Closure(n) == [name |-> n, calls |-> 0]

\* A function supplied by the configuration (transition action, onEntry, onExit,
\* onTimeout.action), by what it does: add inc to context.count, assign lights
\* (Object.assign), set context.isAlarmArmed, call send(ev) synchronously, return a
\* cleanup closure.
NoHook == [present |-> FALSE, name |-> "none", inc |-> 0, lights |-> "keep", arm |-> FALSE,
           send |-> "none", cleanup |-> "none", throws |-> FALSE]
Hook(n) == [NoHook EXCEPT !.present = TRUE, !.name = n]
Inc(h, k) == [h EXCEPT !.inc = k]
Lights(h, l) == [h EXCEPT !.lights = l]
Arms(h) == [h EXCEPT !.arm = TRUE]
Sends(h, ev) == [h EXCEPT !.send = ev]
Returns(h, c) == [h EXCEPT !.cleanup = c]
\* a function whose last statement is throw new Error(...)
Throwing(h) == [h EXCEPT !.throws = TRUE]

\* A candidate transition {target, guard?, action?}.
T(target) == [target |-> target, guard |-> "none", action |-> NoHook]
TG(target, g, a) == [target |-> target, guard |-> g, action |-> a]
\* The StateTransition of an event: one object, or an array of candidates.
One(t) == [arr |-> FALSE, ts |-> <<t>>]
Many(ts) == [arr |-> TRUE, ts |-> ts]

\* A StateDefinition.
SD(isInitial, on) ==
    [isInitial |-> isInitial, isParallel |-> FALSE, onEntry |-> NoHook, onExit |-> NoHook,
     onTimeout |-> NoHook, on |-> on, states |-> <<>>]

\* One entry of the trace: k is what ran ("transition": a transition was taken, to who;
\* "exitFn", "action", "onEntry", "onExit", "onTimeout": the function named who was
\* called; "notify": subscription sub, callback who, was called with (st, ctx)), lvl
\* the depth of the send call it ran in.
Ev(k, who) == [k |-> k, who |-> who, sub |-> 0, st |-> <<>>, ctx |-> Ctx(0, "keep"), lvl |-> 0]

\* guards of the configurations, pure predicates over (context, event)
Guard(g, ctx, ev) ==
    CASE g = "even" -> ctx.count % 2 = 0
      [] g = "low" -> ctx.count < 2
      [] g = "never" -> FALSE
      [] OTHER -> TRUE

\* a guard whose body throws
GuardThrows(g) == g = "throws"

(***************************************************************************)
(* Configurations of createStateMachine (stateMachine.ts): config.states   *)
(* as the sequence of its keys in declaration order (the order of          *)
(* Object.entries) and the StateDefinition of each key.                    *)
(***************************************************************************)
\* README "Parallel States": regions power {off, on} and temperature {cold, hot}
\* as top-level states, the initial state of each region marked isInitial.
OvenNames == <<"off", "on", "cold", "hot">>
OvenStates ==
    [s \in {"off", "on", "cold", "hot"} |->
        CASE s = "off" -> SD(TRUE, "TURN_ON" :> One(T("on")))
          [] s = "on" -> SD(FALSE, "TURN_OFF" :> One(T("off")))
          [] s = "cold" -> SD(TRUE, "HEAT" :> One(T("hot")))
          [] OTHER -> SD(FALSE, "COOL" :> One(T("cold")))]

\* Two regions that both handle GO; the action of region p counts in the context.
RegionNames == <<"p1", "p2", "q1", "q2">>
RegionStates ==
    [s \in {"p1", "p2", "q1", "q2"} |->
        CASE s = "p1" -> SD(TRUE, "GO" :> One(TG("p2", "none", Inc(Hook("p.go"), 1))))
          [] s = "p2" -> SD(FALSE, "BACK" :> One(T("p1")))
          [] s = "q1" -> SD(TRUE, ("GO" :> One(T("q2"))) @@ ("SKIP" :> One(T("q2"))))
          [] OTHER -> SD(FALSE, "BACK" :> One(T("q1")))]

\* README "Hierarchical States": off, and the compound state on {low, high}.
LightNames == <<"off", "on">>
LightStates ==
    [s \in {"off", "on"} |->
        CASE s = "off" -> SD(TRUE, "TOGGLE" :> One(T("on")))
          [] OTHER ->
            [SD(FALSE, <<>>) EXCEPT !.states =
                <<[name |-> "low", isInitial |-> TRUE], [name |-> "high", isInitial |-> FALSE]>>]]

\* The light switch with other markings of the children of on: none of them
\* initial, or both of them.
DimmerStates(lowInitial, highInitial) ==
    [LightStates EXCEPT !["on"].states =
        <<[name |-> "low", isInitial |-> lowInitial], [name |-> "high", isInitial |-> highInitial]>>]

\* Two top-level states, none marked isInitial.
UnmarkedNames == <<"a", "b">>
UnmarkedStates ==
    [s \in {"a", "b"} |->
        CASE s = "a" -> SD(FALSE, "GO" :> One(T("b")))
          [] OTHER -> SD(FALSE, "BACK" :> One(T("a")))]

\* Guarded candidates, a self-transition, entry and exit hooks, cleanup closures.
GuardedNames == <<"a", "b", "c">>
GuardedStates ==
    [s \in {"a", "b", "c"} |->
        CASE s = "a" ->
            [SD(TRUE,
                ("E" :> Many(<<TG("b", "even", Inc(Hook("a.E.1"), 1)),
                               TG("c", "low", Inc(Hook("a.E.2"), 2))>>))
                @@ ("SELF" :> One(T("a")))
                @@ ("INC" :> One(TG("a", "none", Inc(Hook("a.INC"), 1))))
                @@ ("NEVER" :> One(TG("b", "never", Inc(Hook("a.NEVER"), 1)))))
             EXCEPT !.onEntry = Hook("a.onEntry"), !.onExit = Hook("a.onExit")]
          [] s = "b" ->
            [SD(FALSE, "BACK" :> One(TG("a", "none", Returns(Hook("b.BACK"), "k1"))))
             EXCEPT !.onExit = Hook("b.onExit")]
          [] OTHER -> SD(FALSE, "BACK" :> One(T("a")))]

\* Actions and entry hooks that call send synchronously.
NestedNames == <<"x", "y", "z", "w">>
NestedStates ==
    [s \in {"x", "y", "z", "w"} |->
        CASE s = "x" ->
            SD(TRUE, ("GO" :> One(TG("y", "none", Sends(Hook("x.GO"), "FIN"))))
                     @@ ("FIN" :> One(T("z")))
                     @@ ("HOP" :> One(T("w"))))
          [] s = "y" -> SD(FALSE, ("FIN" :> One(T("z"))) @@ ("BACK" :> One(T("x"))))
          [] s = "z" -> SD(FALSE, "BACK" :> One(T("x")))
          [] OTHER ->
            [SD(FALSE, "FIN" :> One(T("y"))) EXCEPT !.onEntry = Sends(Hook("w.onEntry"), "FIN")]]

\* The same states with w as the initial one: start() enters a state whose
\* entry hook calls send.
EntrySendStates ==
    [NestedStates EXCEPT !["x"].isInitial = FALSE, !["w"].isInitial = TRUE]

\* Transitions that go wrong: an action that changes the context and then throws,
\* a guard that throws, a target that is no key of config.states, a transition
\* object without a target (plain JavaScript, or a cast configuration), and an
\* action that throws after the stored cleanup function has run.
FaultyNames == <<"a", "b">>
FaultyStates ==
    [s \in {"a", "b"} |->
        CASE s = "a" ->
            [SD(TRUE,
                ("BOOM" :> One(TG("b", "none", Throwing(Inc(Hook("a.BOOM"), 1)))))
                @@ ("GUARD" :> One(TG("b", "throws", Inc(Hook("a.GUARD"), 1))))
                @@ ("LOST" :> One(T("nowhere")))
                @@ ("INTERNAL" :> One(TG("undefined", "none", Inc(Hook("a.INTERNAL"), 1))))
                @@ ("OK" :> One(TG("b", "none", Returns(Hook("a.OK"), "k1")))))
             EXCEPT !.onEntry = Hook("a.onEntry"),
                    !.onTimeout = Inc(Hook("a.onTimeout"), 1)]
          [] OTHER ->
            [SD(FALSE, "BACK" :> One(TG("a", "none", Throwing(Inc(Hook("b.BACK"), 1)))))
             EXCEPT !.onEntry = Hook("b.onEntry")]]

\* src/src/examples/trafficLight.ts
TrafficNames == <<"stop", "prepareToGo", "go", "waitingToStop", "prepareToStop">>
TrafficStates ==
    [s \in {"stop", "prepareToGo", "go", "waitingToStop", "prepareToStop"} |->
        CASE s = "stop" ->
            [SD(FALSE, "NEXT" :> One(T("prepareToGo")))
             EXCEPT !.onEntry = Lights(Hook("stop.onEntry"), "red"),
                    !.onTimeout = Sends(Hook("stop.onTimeout"), "NEXT")]
          [] s = "prepareToGo" ->
            [SD(TRUE, "NEXT" :> One(T("go")))
             EXCEPT !.onEntry = Lights(Hook("prepareToGo.onEntry"), "red+amber"),
                    !.onTimeout = Sends(Hook("prepareToGo.onTimeout"), "NEXT")]
          [] s = "go" ->
            [SD(FALSE, ("STOP" :> One(T("waitingToStop"))) @@ ("NEXT" :> One(T("waitingToStop"))))
             EXCEPT !.onEntry = Lights(Hook("go.onEntry"), "green")]
          [] s = "waitingToStop" ->
            [SD(FALSE, "NEXT" :> One(T("prepareToStop")))
             EXCEPT !.onEntry = Lights(Hook("waitingToStop.onEntry"), "amber"),
                    !.onTimeout = Sends(Hook("waitingToStop.onTimeout"), "NEXT")]
          [] OTHER ->
            [SD(FALSE, "NEXT" :> One(T("stop")))
             EXCEPT !.onEntry = Lights(Hook("prepareToStop.onEntry"), "red"),
                    !.onTimeout = Sends(Hook("prepareToStop.onTimeout"), "NEXT")]]

\* The alarm clock (examples/alarmClock.ts): normal is the initial state and holds
\* the regions timeDisplay and alarmSystem as nested states; its context holds
\* two Date objects.
AlarmNames == <<"normal", "setting">>
AlarmStates ==
    [s \in {"normal", "setting"} |->
        CASE s = "normal" ->
            [SD(TRUE, <<>>) EXCEPT !.isParallel = TRUE,
                                   !.states = <<[name |-> "timeDisplay", isInitial |-> FALSE],
                                                [name |-> "alarmSystem", isInitial |-> FALSE]>>]
          [] OTHER ->
            SD(FALSE, ("EXIT_SETTING" :> One(T("normal")))
                      @@ ("SAVE_ALARM_SETTINGS" :>
                             One(TG("normal", "none", Arms(Hook("setting.SAVE_ALARM_SETTINGS"))))))]

AlarmContext ==
    [count |-> 0, lights |-> "keep", currentTime |-> JSDate("now"), alarmTime |-> JSDate("now"),
     isAlarmArmed |-> FALSE]

\* The states of NestedStates with an action for GO that does not call send:
\* the machine a caller drives when it sends FIN itself after GO has returned.
SequentialStates ==
    [NestedStates EXCEPT !["x"].on["GO"].ts[1].action.send = "none"]

SMConfigs == {"oven", "regions", "light", "guarded", "nested", "entry send", "traffic", "alarm",
              "faulty",
              "no initial", "no initial child", "two initial children"}

StateNames(c) ==
    CASE c = "oven" -> OvenNames
      [] c = "regions" -> RegionNames
      [] c = "light" -> LightNames
      [] c = "guarded" -> GuardedNames
      [] c \in {"nested", "entry send", "sequential"} -> NestedNames
      [] c = "alarm" -> AlarmNames
      [] c = "faulty" -> FaultyNames
      [] c = "no initial" -> UnmarkedNames
      [] c \in {"no initial child", "two initial children"} -> LightNames
      [] OTHER -> TrafficNames

States(c) ==
    CASE c = "oven" -> OvenStates
      [] c = "regions" -> RegionStates
      [] c = "light" -> LightStates
      [] c = "guarded" -> GuardedStates
      [] c = "nested" -> NestedStates
      [] c = "entry send" -> EntrySendStates
      [] c = "sequential" -> SequentialStates
      [] c = "alarm" -> AlarmStates
      [] c = "faulty" -> FaultyStates
      [] c = "no initial" -> UnmarkedStates
      [] c = "no initial child" -> DimmerStates(FALSE, FALSE)
      [] c = "two initial children" -> DimmerStates(TRUE, TRUE)
      [] OTHER -> TrafficStates

\* config.context
ConfigContext(c) ==
    CASE c = "traffic" -> Ctx(0, "off")
      [] c = "alarm" -> AlarmContext
      [] OTHER -> Ctx(0, "keep")

\* the event types of a configuration, and one that no state handles
EventTypes(c) ==
    UNION {DOMAIN States(c)[s].on : s \in DOMAIN States(c)} \cup {"UNRELATED"}

\* config.states[state], which is undefined for a key the map does not hold
HasState(c, state) == state \in DOMAIN States(c)
StateDef(c, state) == States(c)[state]

(***************************************************************************)
(* createStateMachine of stateMachine.ts. A machine is the record of the   *)
(* closure's variables; each function of the closure is an operator from   *)
(* the machine before the call to the machine after it. lvl is the depth   *)
(* of the send call on the call stack (0: called from outside).            *)
(***************************************************************************)
Log(m, e) == [m EXCEPT !.trace = Append(@, e)]

\* an exception is on its way up the call stack: no statement after the one
\* that threw runs (the file has no try, catch or finally)
Raise(m, message) == [m EXCEPT !.thrown = message]
Failed(m) == m.thrown # "none"

\* initializeState(config.states): the keys marked isInitial, in declaration order
RECURSIVE InitialStates(_, _, _)
InitialStates(c, names, i) ==
    IF i > Len(names) THEN <<>>
    ELSE (IF StateDef(c, names[i]).isInitial THEN <<names[i]>> ELSE <<>>)
         \o InitialStates(c, names, i + 1)

\* throw new Error(message), as the outcome of a call
Throw(message) == [throw |-> message]
Threw(outcome) == "throw" \in DOMAIN outcome

initializeState(c) ==
    LET initialStates == InitialStates(c, StateNames(c), 1)
    IN  IF Len(initialStates) = 0 THEN Throw("No initial state defined")
        ELSE IF Len(initialStates) = 1 THEN Single(initialStates[1])
        ELSE Array(initialStates)

\* flattenState(state): [state] for a string, state.flatMap(flattenState) for an array
flattenState(state) == state.v

\* the body of a configuration function: what it does to the context
ApplyHook(m, h) ==
    LET n == m.context.count + h.inc
        m1 == [m EXCEPT !.context.count = IF n > MaxCount THEN MaxCount ELSE n,
                        !.context.lights = IF h.lights = "keep" THEN @ ELSE h.lights,
                        !.over = @ \/ n > MaxCount]
        m2 == IF h.arm THEN [m1 EXCEPT !.context.isAlarmArmed = TRUE] ELSE m1
    IN  IF h.throws THEN Raise(m2, "Error: " \o h.name) ELSE m2

\* setStateTimeout(state, stateDef)
setStateTimeout(m, c, state) ==
    IF StateDef(c, state).onTimeout.present
    THEN [m EXCEPT !.timers[state] = IF @ < MaxTimers THEN @ + 1 ELSE @,
                   !.timeoutIds[state] = "live",
                   !.over = @ \/ m.timers[state] >= MaxTimers]
    ELSE m

\* clearStateTimeout(state)
clearStateTimeout(m, state) ==
    IF m.timeoutIds[state] # "none"
    THEN [m EXCEPT !.timers[state] = IF m.timeoutIds[state] = "live" THEN @ - 1 ELSE @,
                   !.timeoutIds[state] = "none"]
    ELSE m

\* What a subscriber callback does when it is called: "adder" subscribes the
\* callback "late" to the object that called it, the others do nothing to it.
Subscribing(callback) == IF callback = "adder" THEN "late" ELSE "none"

\* the subscriptions of callback in a subscribers array
Subscriptions(subs, callback) == {i \in 1..Len(subs) : subs[i] = callback}

\* callback(...) for subscribers[i]: the call, and the subscribers.push of a
\* subscribe the callback makes
CallSubscriber(m, i, st, lvl) ==
    LET callback == m.subscribers[i]
        m1 == Log(m, [k |-> "notify", who |-> callback, sub |-> i, st |-> st,
                      ctx |-> m.context, lvl |-> lvl])
    IN  IF Subscribing(callback) = "none" THEN m1
        ELSE [m1 EXCEPT !.subscribers = Append(@, Subscribing(callback)),
                        !.over = @ \/ Cardinality(Subscriptions(m.subscribers, "late")) >= MaxLate]

\* subscribers.forEach(callback => callback(state, context)) for one state
\* Array.prototype.forEach visits the indices below the length the array had
\* when forEach was called: n is that length
RECURSIVE NotifyEach(_, _, _, _, _)
NotifyEach(m, state, i, n, lvl) ==
    IF i > n THEN m
    ELSE NotifyEach(CallSubscriber(m, i, <<state>>, lvl), state, i + 1, n, lvl)

RECURSIVE NotifyStates(_, _, _, _)
NotifyStates(m, flattenedStates, j, lvl) ==
    IF j > Len(flattenedStates) THEN m
    ELSE NotifyStates(NotifyEach(m, flattenedStates[j], 1, Len(m.subscribers), lvl),
                      flattenedStates, j + 1, lvl)

\* notifySubscribers()
notifySubscribers(m, lvl) == NotifyStates(m, flattenState(m.currentState), 1, lvl)

\* exitFn()
callExitFn(m, lvl) ==
    Log([m EXCEPT !.exitFn.calls = IF @ < MaxCalls THEN @ + 1 ELSE @,
                  !.over = @ \/ m.exitFn.calls >= MaxCalls],
        [Ev("exitFn", m.exitFn.name) EXCEPT !.lvl = lvl])

RECURSIVE send(_, _, _, _)
RECURSIVE handleSingleStateTransition(_, _, _, _, _)
RECURSIVE processTransition(_, _, _, _, _)
RECURSIVE executeTransitionAction(_, _, _, _, _)
RECURSIVE enterState(_, _, _, _)
RECURSIVE RunHook(_, _, _, _, _)
RECURSIVE ForEachTransition(_, _, _, _, _, _)
RECURSIVE ForEachState(_, _, _, _, _, _)

\* a call of a configuration function with { context, state | event, send } from
\* a call of depth lvl: kind names the call in the trace; a send it makes is one deeper
RunHook(m, c, h, kind, lvl) ==
    LET m1 == Log(ApplyHook(m, h), [Ev(kind, h.name) EXCEPT !.lvl = lvl])
    IN  IF h.send = "none" \/ Failed(m1) THEN m1 ELSE send(m1, c, h.send, lvl + 1)

\* The statements that follow a call of a configuration function run only when
\* the call returned: m is the machine after the call.
\* setStateTimeout(state, stateDef) after stateDef.onEntry(...)
ThenSetStateTimeout(m, c, state) ==
    IF Failed(m) THEN m ELSE setStateTimeout(m, c, state)

\* exitFn = result after transition.action(...) returned a function
ThenAssignExitFn(m, transition) ==
    IF transition.action.cleanup # "none" /\ ~Failed(m)
    THEN [m EXCEPT !.exitFn = Closure(transition.action.cleanup)]
    ELSE m

\* notifySubscribers() after the transitions of send, or the entries of start
ThenNotify(m, lvl) ==
    IF Failed(m) THEN m ELSE notifySubscribers(m, lvl)

\* enterState(state)
enterState(m, c, state, lvl) ==
    IF HasState(c, state)
    THEN LET stateDef == StateDef(c, state)
             m1 == IF stateDef.onEntry.present
                   THEN RunHook(m, c, stateDef.onEntry, "onEntry", lvl)
                   ELSE m
         IN  ThenSetStateTimeout(m1, c, state)
    ELSE m

\* the target entered while currentState still holds the state being left
ThenEnterTargetAssignLast(m, c, transition, lvl) ==
    IF Failed(m) THEN m
    ELSE [enterState(m, c, transition.target, lvl)
             EXCEPT !.currentState = Single(transition.target)]

\* currentState = transition.target; enterState(currentState)
ThenEnterTarget(m, c, transition, lvl) ==
    IF Failed(m) THEN m
    ELSE enterState([m EXCEPT !.currentState = Single(transition.target)],
                    c, transition.target, lvl)

\* executeTransitionAction(transition, event)
executeTransitionAction(m, c, transition, event, lvl) ==
    LET m0 == Log(m, [Ev("transition", transition.target) EXCEPT !.lvl = lvl])
        m1 == IF m0.exitFn.name # "none" THEN callExitFn(m0, lvl) ELSE m0
        m2 == IF transition.action.present
              THEN ThenAssignExitFn(RunHook(m1, c, transition.action, "action", lvl),
                                    transition)
              ELSE m1
    IN  ThenEnterTarget(m2, c, transition, lvl)

\* the loop of processTransition without its break: every candidate whose guard
\* passes is executed
RECURSIVE ForEachTransitionNoBreak(_, _, _, _, _, _)
ForEachTransitionNoBreak(m, c, ts, i, event, lvl) ==
    IF i > Len(ts) \/ Failed(m) THEN m
    ELSE IF GuardThrows(ts[i].guard) THEN Raise(m, "Error: guard")
    ELSE IF ts[i].guard # "none" /\ ~Guard(ts[i].guard, m.context, event)
         THEN ForEachTransitionNoBreak(m, c, ts, i + 1, event, lvl)
         ELSE ForEachTransitionNoBreak(executeTransitionAction(m, c, ts[i], event, lvl),
                                       c, ts, i + 1, event, lvl)

\* for (const t of transition) { if (t.guard && !t.guard(..)) continue; execute; break }
ForEachTransition(m, c, ts, i, event, lvl) ==
    IF i > Len(ts) THEN m
    ELSE IF GuardThrows(ts[i].guard) THEN Raise(m, "Error: guard")
    ELSE IF ts[i].guard # "none" /\ ~Guard(ts[i].guard, m.context, event)
         THEN ForEachTransition(m, c, ts, i + 1, event, lvl)
         ELSE executeTransitionAction(m, c, ts[i], event, lvl)

\* processTransition that does not ask the guard of a single transition object
processTransitionUnguarded(m, c, transition, event, lvl) ==
    IF transition.arr
    THEN ForEachTransition(m, c, transition.ts, 1, event, lvl)
    ELSE executeTransitionAction(m, c, transition.ts[1], event, lvl)

\* processTransition(transition, event)
processTransition(m, c, transition, event, lvl) ==
    IF transition.arr
    THEN ForEachTransition(m, c, transition.ts, 1, event, lvl)
    ELSE IF GuardThrows(transition.ts[1].guard) THEN Raise(m, "Error: guard")
    ELSE IF transition.ts[1].guard = "none" \/ Guard(transition.ts[1].guard, m.context, event)
         THEN executeTransitionAction(m, c, transition.ts[1], event, lvl)
         ELSE m

\* handleSingleStateTransition(state, event)
handleSingleStateTransition(m, c, state, event, lvl) ==
    IF HasState(c, state)
    THEN LET m1 == clearStateTimeout(m, state)
             transitions == StateDef(c, state).on
         IN  IF event \in DOMAIN transitions
             THEN processTransition(m1, c, transitions[event], event, lvl)
             ELSE m1
    ELSE m

\* currentState.forEach(state => handleSingleStateTransition(state, event)):
\* forEach walks the array it was called on, whatever currentState becomes meanwhile
ForEachState(m, c, states, i, event, lvl) ==
    IF i > Len(states) \/ Failed(m) THEN m
    ELSE ForEachState(handleSingleStateTransition(m, c, states[i], event, lvl),
                      c, states, i + 1, event, lvl)

\* the closure's variables put back to what they were when the dispatch threw
ThenNotifyOrRollback(before, m, lvl) ==
    IF Failed(m) THEN [before EXCEPT !.thrown = m.thrown, !.trace = m.trace]
    ELSE notifySubscribers(m, lvl)

\* send(event) that puts the closure's variables back when the dispatch throws
sendRollback(m, c, event, lvl) ==
    IF lvl > SendDepth THEN [m EXCEPT !.over = TRUE]
    ELSE LET m1 == IF m.currentState.arr
                   THEN ForEachState(m, c, m.currentState.v, 1, event, lvl)
                   ELSE handleSingleStateTransition(m, c, m.currentState.v[1], event, lvl)
         IN  ThenNotifyOrRollback(m, m1, lvl)

\* send(event)
send(m, c, event, lvl) ==
    IF lvl > SendDepth THEN [m EXCEPT !.over = TRUE]
    ELSE LET m1 == IF m.currentState.arr
                   THEN ForEachState(m, c, m.currentState.v, 1, event, lvl)
                   ELSE handleSingleStateTransition(m, c, m.currentState.v[1], event, lvl)
         IN  ThenNotify(m1, lvl)

\* currentState.forEach(state => enterState(state)) of start()
RECURSIVE ForEachEnter(_, _, _, _)
ForEachEnter(m, c, states, i) ==
    IF i > Len(states) \/ Failed(m) THEN m
    ELSE ForEachEnter(enterState(m, c, states[i], 0), c, states, i + 1)

\* start()
start(m, c) ==
    LET m1 == IF m.currentState.arr
              THEN ForEachEnter(m, c, m.currentState.v, 1)
              ELSE enterState(m, c, m.currentState.v[1], 0)
    IN  ThenNotify(m1, 0)

\* subscribe(callback)
subscribe(m, callback) == [m EXCEPT !.subscribers = Append(@, callback)]

\* the value of the call subscribe(callback): the function has no return statement
subscribeReturns == "undefined"

\* JSON.stringify of a context: numbers, strings and booleans are written as they
\* are, a Date is written as the string of its toISOString()
stringifyContext(ctx) ==
    IF "currentTime" \in DOMAIN ctx
    THEN [ctx EXCEPT !.currentTime = IF @.type = "Date" THEN toISOString(@) ELSE @,
                     !.alarmTime = IF @.type = "Date" THEN toISOString(@) ELSE @]
    ELSE ctx

\* JSON.stringify of currentState: a JSON string, or a JSON array of strings
stringifyState(state) ==
    IF state.arr THEN [json |-> "array", items |-> state.v]
    ELSE [json |-> "string", items |-> state.v]

\* JSON.parse of what stringifyState wrote
parseState(text) ==
    IF text.json = "array" THEN Array(text.items) ELSE Single(text.items[1])

\* toJSON(): JSON.stringify({ state: currentState, context })
toJSON(m) == [state |-> stringifyState(m.currentState), context |-> stringifyContext(m.context)]

\* fromJSON(json): data = JSON.parse(json); currentState = data.state; context = data.context
fromJSON(m, json) ==
    [m EXCEPT !.currentState = parseState(json.state), !.context = json.context]

\* the callback given to setTimeout by setStateTimeout; the platform calls it
\* from outside every send, so a send it makes has depth 0
timeoutCallback(m, c, state) ==
    RunHook(m, c, StateDef(c, state).onTimeout, "onTimeout", -1)

(***************************************************************************)
(* createStateMachine of the first generation (unnamed/part_008): the      *)
(* configuration gives initialState and transitionMap; an action gets      *)
(* (context, event) and no send; there are no hooks and no timers.         *)
(***************************************************************************)
\* A two-state switch whose action is guarded, counts and returns a cleanup closure.
SwitchNames == <<"off", "on">>
SwitchStates ==
    [s \in {"off", "on"} |->
        CASE s = "off" -> SD(TRUE, "TOGGLE" :> One(TG("on", "low", Returns(Inc(Hook("off.TOGGLE"), 1), "k1"))))
          [] OTHER -> SD(FALSE, ("TOGGLE" :> One(T("off"))) @@ ("STAY" :> One(T("on"))))]

\* A step that is allowed while the count is even and counts.
CounterNames == <<"idle", "busy">>
CounterStates ==
    [s \in {"idle", "busy"} |->
        CASE s = "idle" -> SD(TRUE, "STEP" :> One(TG("busy", "even", Inc(Hook("idle.STEP"), 1))))
          [] OTHER -> SD(FALSE, "DONE" :> One(T("idle")))]

V1Configs == {"oven", "regions", "switch", "counter"}

\* config.transitionMap
TransitionMap(c) ==
    CASE c = "oven" -> [s \in DOMAIN OvenStates |-> OvenStates[s].on]
      [] c = "regions" -> [s \in DOMAIN RegionStates |-> RegionStates[s].on]
      [] c = "counter" -> [s \in DOMAIN CounterStates |-> CounterStates[s].on]
      [] OTHER -> [s \in DOMAIN SwitchStates |-> SwitchStates[s].on]

\* config.initialState
InitialState(c) ==
    CASE c = "oven" -> Array(<<"off", "cold">>)
      [] c = "regions" -> Array(<<"p1", "q1">>)
      [] c = "counter" -> Single("idle")
      [] OTHER -> Single("off")

EventTypesV1(c) ==
    UNION {DOMAIN TransitionMap(c)[s] : s \in DOMAIN TransitionMap(c)} \cup {"UNRELATED"}

\* the body of the if in handleSingleStateTransition and handleParallelStateTransitions:
\* exitFn(), then the action, whose result replaces exitFn when it is a function
takeTransitionV1(m, transition) ==
    LET m0 == Log(m, Ev("transition", transition.target))
        m1 == IF m0.exitFn.name # "none" THEN callExitFn(m0, 0) ELSE m0
    IN  IF transition.action.present
        THEN LET r == Log(ApplyHook(m1, transition.action), Ev("action", transition.action.name))
             IN  IF transition.action.cleanup # "none"
                 THEN [r EXCEPT !.exitFn = Closure(transition.action.cleanup)]
                 ELSE r
        ELSE m1

\* transition && (!transition.guard || transition.guard(context, event))
enabledV1(m, c, state, event) ==
    /\ state \in DOMAIN TransitionMap(c)
    /\ event \in DOMAIN TransitionMap(c)[state]
    /\ LET transition == TransitionMap(c)[state][event].ts[1]
       IN  transition.guard = "none" \/ Guard(transition.guard, m.context, event)

\* handleSingleStateTransition(event)
handleSingleStateTransitionV1(m, c, event) ==
    LET state == m.currentState.v[1]
    IN  IF enabledV1(m, c, state, event)
        THEN LET transition == TransitionMap(c)[state][event].ts[1]
             IN  [takeTransitionV1(m, transition) EXCEPT !.currentState = Single(transition.target)]
        ELSE m

\* the forEach of handleParallelStateTransitions without its else branches: a
\* state with no enabled handler for the event is not pushed to newStates
RECURSIVE ForEachParallelDropUnhandled(_, _, _, _, _)
ForEachParallelDropUnhandled(acc, c, states, i, event) ==
    IF i > Len(states) THEN acc
    ELSE LET state == states[i]
             step == IF enabledV1(acc.m, c, state, event)
                     THEN LET transition == TransitionMap(c)[state][event].ts[1]
                          IN  [m |-> takeTransitionV1(acc.m, transition),
                               newStates |-> Append(acc.newStates, transition.target)]
                     ELSE acc
         IN  ForEachParallelDropUnhandled(step, c, states, i + 1, event)

\* the forEach of handleParallelStateTransitions with unshift in place of push:
\* every entry is put in front of those already in newStates
RECURSIVE ForEachParallelUnshift(_, _, _, _, _)
ForEachParallelUnshift(acc, c, states, i, event) ==
    IF i > Len(states) THEN acc
    ELSE LET state == states[i]
             step == IF enabledV1(acc.m, c, state, event)
                     THEN LET transition == TransitionMap(c)[state][event].ts[1]
                          IN  [m |-> takeTransitionV1(acc.m, transition),
                               newStates |-> <<transition.target>> \o acc.newStates]
                     ELSE [m |-> acc.m, newStates |-> <<state>> \o acc.newStates]
         IN  ForEachParallelUnshift(step, c, states, i + 1, event)

\* the forEach of handleParallelStateTransitions: acc is [m, newStates]
RECURSIVE ForEachParallel(_, _, _, _, _)
ForEachParallel(acc, c, states, i, event) ==
    IF i > Len(states) THEN acc
    ELSE LET state == states[i]
             step == IF enabledV1(acc.m, c, state, event)
                     THEN LET transition == TransitionMap(c)[state][event].ts[1]
                          IN  [m |-> takeTransitionV1(acc.m, transition),
                               newStates |-> Append(acc.newStates, transition.target)]
                     ELSE [m |-> acc.m, newStates |-> Append(acc.newStates, state)]
         IN  ForEachParallel(step, c, states, i + 1, event)

\* handleParallelStateTransitions(event)
handleParallelStateTransitions(m, c, event) ==
    LET r == ForEachParallel([m |-> m, newStates |-> <<>>], c, m.currentState.v, 1, event)
    IN  [r.m EXCEPT !.currentState = Array(r.newStates)]

\* notifySubscribers(): for (const subscriber of subscribers) subscriber(currentState, context)
\* (the iterator of for...of reads the array's length anew at every step)
RECURSIVE notifySubscribersV1(_, _)
notifySubscribersV1(m, i) ==
    IF i > Len(m.subscribers) THEN m
    ELSE notifySubscribersV1(CallSubscriber(m, i, m.currentState.v, 0), i + 1)

\* fromJSON(json) of the first generation: restores and then notifySubscribers()
fromJSONV1(m, json) == notifySubscribersV1(fromJSON(m, json), 1)

\* send(event)
sendV1(m, c, event) ==
    LET m1 == IF m.currentState.arr
              THEN handleParallelStateTransitions(m, c, event)
              ELSE handleSingleStateTransitionV1(m, c, event)
    IN  notifySubscribersV1(m1, 1)

(***************************************************************************)
(* createEventBus of eventBus.ts: the closure holds the subscribers array. *)
(***************************************************************************)
\* for (const callback of subscribers) callback(event), from index i on
RECURSIVE ForOfSubscribers(_, _, _)
ForOfSubscribers(m, event, i) ==
    IF i > Len(m.subscribers) THEN m
    ELSE ForOfSubscribers(CallSubscriber(m, i, <<event>>, 0), event, i + 1)

\* publish(event)
publish(m, event) == ForOfSubscribers(m, event, 1)

BusEvents == {"e1", "e2"}

(***************************************************************************)
(* The Machine class (Machine.ts) over a tree of MachineNode. Machine.ts   *)
(* builds the tree and forwards start, stop and dispatch to the root node; *)
(* the MachineNode class is not among the sources and is modelled from the *)
(* specification (section 4.1).                                            *)
(***************************************************************************)
TreeConfigs == {"initial a", "initial b", "initial c", "nested"}

\* a StateNode without child states
Leaf(id) == [id |-> id, initial |-> "none", states |-> <<>>]

\* the configuration of the test 'set initial state': states a, b, c in this
\* declaration order, and any one of them as config.initial; in "nested" the
\* state c has the child states c1 (its initial one) and c2
TreeConfig(c) ==
    [id |-> "root",
     initial |-> CASE c = "initial a" -> "a" [] c = "initial b" -> "b" [] OTHER -> "c",
     states |-> <<Leaf("a"), Leaf("b"),
                  IF c = "nested"
                  THEN [id |-> "c", initial |-> "c1", states |-> <<Leaf("c1"), Leaf("c2")>>]
                  ELSE Leaf("c")>>]

\* buildNodeTree with the first declared child taken as the initial one
RECURSIVE buildNodeTreeFirstChild(_)
buildNodeTreeFirstChild(config) ==
    [id |-> config.id, isInitial |-> FALSE,
     children |-> [i \in 1..Len(config.states) |->
                      [buildNodeTreeFirstChild(config.states[i]) EXCEPT !.isInitial = (i = 1)]]]

\* buildNodeTree(config, id): one child node per entry of config.states, in
\* declaration order, built by the same function and added with
\* isInitial = (childId === config.initial)
RECURSIVE buildNodeTree(_)
buildNodeTree(config) ==
    [id |-> config.id, isInitial |-> FALSE,
     children |-> [i \in 1..Len(config.states) |->
                      [buildNodeTree(config.states[i])
                          EXCEPT !.isInitial = (config.states[i].id = config.initial)]]]

RECURSIVE NodeIds(_)
NodeIds(tree) ==
    {tree.id} \cup UNION {NodeIds(tree.children[i]) : i \in 1..Len(tree.children)}

\* the child node of tree with the given id
Child(tree, id) == tree.children[CHOOSE i \in 1..Len(tree.children) : tree.children[i].id = id]

\* the event handlers of the nodes (StateNode.on): NEXT walks a, b, c, a, and
\* the handler of a adds one to context.count; INNER swaps c1 and c2
TreeOn(id) ==
    CASE id = "a" -> "NEXT" :> One(TG("b", "none", Inc(Hook("a.NEXT"), 1)))
      [] id = "b" -> "NEXT" :> One(T("c"))
      [] id = "c" -> "NEXT" :> One(T("a"))
      [] id = "c1" -> "INNER" :> One(T("c2"))
      [] id = "c2" -> "INNER" :> One(T("c1"))
      [] OTHER -> <<>>

TreeEvents == {"NEXT", "INNER", "UNRELATED"}

\* the delayed transition of a node: a moves to b when its timer fires
TreeAfter(id) == IF id = "a" THEN "b" ELSE "none"

\* A node tree with its flags, timers, context and the calls of entry and exit
\* actions made so far: t is [active, timers, context, trace]. Every node has an
\* entry action and an exit action.

\* MachineNode.enter(): a no-op on an active node; otherwise the node becomes
\* active, runs its entry action, enters its initial child and has its delayed
\* transition scheduled
RECURSIVE NodeEnter(_, _)
NodeEnter(tree, t) ==
    IF t.active[tree.id] THEN t
    ELSE LET t1 == [t EXCEPT !.active[tree.id] = TRUE,
                             !.trace = Append(@, Ev("onEntry", tree.id))]
             initial == {i \in 1..Len(tree.children) : tree.children[i].isInitial}
             t2 == IF initial = {} THEN t1
                   ELSE NodeEnter(tree.children[CHOOSE i \in initial : TRUE], t1)
         IN  [t2 EXCEPT !.timers[tree.id] = IF TreeAfter(tree.id) # "none" THEN 1 ELSE @]

\* MachineNode.exit() that runs the node's exit action before its descendants exit
RECURSIVE NodeExitParentFirst(_, _)
RECURSIVE ExitChildrenParentFirst(_, _, _)
ExitChildrenParentFirst(tree, t, i) ==
    IF i > Len(tree.children) THEN t
    ELSE ExitChildrenParentFirst(tree, NodeExitParentFirst(tree.children[i], t), i + 1)

NodeExitParentFirst(tree, t) ==
    IF ~t.active[tree.id] THEN t
    ELSE ExitChildrenParentFirst(tree,
                                 [t EXCEPT !.timers[tree.id] = 0,
                                           !.trace = Append(@, Ev("onExit", tree.id)),
                                           !.active[tree.id] = FALSE],
                                 1)

\* MachineNode.exit(): a no-op on an inactive node; otherwise the active
\* descendants exit first, then the node's timer is cancelled, its exit action
\* runs and the node becomes inactive
RECURSIVE NodeExit(_, _)
RECURSIVE ExitChildren(_, _, _)
ExitChildren(tree, t, i) ==
    IF i > Len(tree.children) THEN t
    ELSE ExitChildren(tree, NodeExit(tree.children[i], t), i + 1)

NodeExit(tree, t) ==
    IF ~t.active[tree.id] THEN t
    ELSE LET t1 == ExitChildren(tree, t, 1)
         IN  [t1 EXCEPT !.timers[tree.id] = 0,
                        !.trace = Append(@, Ev("onExit", tree.id)),
                        !.active[tree.id] = FALSE]

\* MachineNode.dispatch(event): the active child that handles the event exits,
\* the transition's action runs and the target is entered; an event the active
\* child does not handle is passed down to it
RECURSIVE NodeDispatch(_, _, _)
NodeDispatch(tree, t, event) ==
    LET activeChildren == {i \in 1..Len(tree.children) : t.active[tree.children[i].id]}
        sources == {i \in activeChildren : event \in DOMAIN TreeOn(tree.children[i].id)}
    IN  IF activeChildren = {} THEN t
        ELSE IF sources = {}
        THEN NodeDispatch(tree.children[CHOOSE i \in activeChildren : TRUE], t, event)
        ELSE LET source == tree.children[CHOOSE i \in sources : TRUE]
                 transition == TreeOn(source.id)[event].ts[1]
                 exited == NodeExit(source, t)
                 acted == IF transition.action.present
                          THEN [exited EXCEPT
                                   !.context.count = @ + transition.action.inc,
                                   !.trace = Append(@, Ev("action", transition.action.name))]
                          ELSE exited
             IN  NodeEnter(Child(tree, transition.target), acted)

\* the timer of node id fires: when the node is still active its delayed
\* transition is taken, otherwise nothing happens
NodeTimeout(tree, t, id) ==
    LET fired == [t EXCEPT !.timers[id] = 0]
    IN  IF t.active[id]
        THEN NodeEnter(Child(tree, TreeAfter(id)), NodeExit(Child(tree, id), fired))
        ELSE fired

\* MachineNode.clone(): a copy of the tree with fresh flags, fresh timers and a
\* copy of the context
MachineNodeClone(tree, t) ==
    [root |-> "own",
     active |-> [n \in DOMAIN t.active |-> FALSE],
     timers |-> [n \in DOMAIN t.timers |-> 0],
     context |-> t.context]

\* getActive() with the flag of the parent reported for each atomic child
RECURSIVE getActiveOfParent(_, _)
getActiveOfParent(current, act) ==
    [id \in {current.children[i].id : i \in 1..Len(current.children)} |->
        IF Len(Child(current, id).children) = 0
        THEN act[current.id]
        ELSE getActiveOfParent(Child(current, id), act)]

\* getActive(current = this.#rootNode): Object.fromEntries of [child.id,
\* child.isActive] for a child without children and [child.id, getActive(child)]
\* for one with children; act holds the isActive flags of the nodes
RECURSIVE getActive(_, _)
getActive(current, act) ==
    [id \in {current.children[i].id : i \in 1..Len(current.children)} |->
        IF Len(Child(current, id).children) = 0
        THEN act[id]
        ELSE getActive(Child(current, id), act)]

(***************************************************************************)
(* The machine as a state machine: the closure's variables are the state,  *)
(* the public API and the platform's timer callbacks are the actions.      *)
(***************************************************************************)
Callbacks == {"cb1", "cb2"}

\* the closure's variables as one record, with an empty trace
Machine ==
    [currentState |-> currentState, context |-> context, exitFn |-> exitFn,
     subscribers |-> subscribers, timeoutIds |-> timeoutIds, timers |-> timers,
     trace |-> <<>>, over |-> FALSE, thrown |-> "none"]

\* what the claims compare the state after a call with
Snapshot == [currentState |-> currentState, context |-> context, exitFn |-> exitFn,
             timeoutIds |-> timeoutIds, timers |-> timers, active |-> active, saved |-> saved,
             clone |-> clone, subscribers |-> subscribers]

\* the call returns, or throws what r.thrown holds: the closure's variables are
\* those of r
Return(r, op, ev) ==
    /\ thrown = "none"
    /\ ~r.over
    /\ currentState' = r.currentState
    /\ context' = r.context
    /\ exitFn' = r.exitFn
    /\ subscribers' = r.subscribers
    /\ timeoutIds' = r.timeoutIds
    /\ timers' = r.timers
    /\ trace' = r.trace
    /\ last' = [op |-> op, ev |-> ev, pre |-> Snapshot, started |-> last.started \/ op = "start",
                restores |-> last.restores + (IF op = "fromJSON" THEN 1 ELSE 0)]
    /\ thrown' = r.thrown
    /\ UNCHANGED <<impl, cfg, rootNode, active, clone>>

Commit(r, op, ev) == Return(r, op, ev) /\ UNCHANGED saved

\* json = machine.toJSON(): the caller keeps the string
ToJSON ==
    /\ impl \in {"sm", "v1"}
    /\ thrown = "none"
    /\ last.restores < MaxRestores
    /\ saved' = <<[json |-> toJSON(Machine), currentState |-> currentState, context |-> context]>>
    /\ trace' = <<>>
    /\ last' = [op |-> "toJSON", ev |-> "none", pre |-> Snapshot, started |-> last.started,
                restores |-> last.restores]
    /\ UNCHANGED <<impl, cfg, currentState, context, exitFn, subscribers, timeoutIds, timers,
                   rootNode, active, clone, thrown>>

\* createStateMachine(config): when initializeState throws, no machine exists
InitSM ==
    /\ impl = "sm"
    /\ cfg \in SMConfigs
    /\ IF Threw(initializeState(cfg))
       THEN thrown = initializeState(cfg).throw /\ currentState = Single("none")
       ELSE thrown = "none" /\ currentState = initializeState(cfg)
    /\ context = ConfigContext(cfg)
    /\ exitFn = NoExitFn
    /\ subscribers = <<>>
    /\ timeoutIds = [s \in DOMAIN States(cfg) |-> "none"]
    /\ timers = [s \in DOMAIN States(cfg) |-> 0]
    /\ rootNode = <<>>
    /\ active = <<>>
    /\ clone = <<>>
    /\ saved = <<>>
    /\ trace = <<>>
    /\ last = [op |-> "create", ev |-> "none", pre |-> Snapshot, started |-> FALSE, restores |-> 0]

\* machine.start()
Start ==
    /\ impl = "sm"
    /\ Commit(start(Machine, cfg), "start", "none")

\* machine.send({ type: ev })
Send(ev) ==
    /\ impl = "sm"
    /\ Commit(send(Machine, cfg, ev, 0), "send", ev)

\* machine.subscribe(callback)
Subscribe(callback) ==
    /\ impl = "sm"
    /\ Len(subscribers) < MaxSubs
    /\ Commit(subscribe(Machine, callback), "subscribe", "none")

\* const unsubscribe = machine.subscribe(callback); unsubscribe(): the caller calls
\* what subscribe returned, and calling undefined throws a TypeError
Unsubscribe ==
    /\ impl \in {"sm", "v1"}
    /\ thrown = "none"
    /\ last.op = "subscribe"
    /\ subscribeReturns = "undefined"
    /\ thrown' = "TypeError: unsubscribe is not a function"
    /\ trace' = <<>>
    /\ last' = [op |-> "unsubscribe", ev |-> "none", pre |-> Snapshot, started |-> last.started,
                restores |-> last.restores]
    /\ UNCHANGED <<impl, cfg, currentState, context, exitFn, subscribers, timeoutIds, timers,
                   rootNode, active, clone, saved>>

\* The platform runs a pending setTimeout callback of state: the one whose handle
\* timeoutIds still holds (tracked), or one whose handle was overwritten.
TimerFires(state, tracked) ==
    /\ impl = "sm"
    /\ timers[state] > 0
    /\ IF tracked THEN timeoutIds[state] = "live"
       ELSE timers[state] > (IF timeoutIds[state] = "live" THEN 1 ELSE 0)
    /\ Commit(timeoutCallback([Machine EXCEPT !.timers[state] = @ - 1,
                                              !.timeoutIds[state] = IF tracked THEN "dead" ELSE @],
                              cfg, state),
              "timeout", state)

\* machine.fromJSON(json) with the string kept from an earlier toJSON()
FromJSON ==
    /\ impl = "sm"
    /\ saved # <<>>
    /\ last.restores < MaxRestores
    /\ Return(fromJSON(Machine, saved[1].json), "fromJSON", "none")
    /\ saved' = <<>>

NextSM ==
    \/ Start
    \/ Unsubscribe
    \/ \E ev \in EventTypes(cfg) : Send(ev)
    \/ \E callback \in Callbacks : Subscribe(callback)
    \/ \E state \in DOMAIN timers, tracked \in BOOLEAN : TimerFires(state, tracked)

\* createStateMachine(config) of the first generation
InitV1 ==
    /\ impl = "v1"
    /\ cfg \in V1Configs
    /\ currentState = InitialState(cfg)
    /\ thrown = "none"
    /\ context = ConfigContext(cfg)
    /\ exitFn = NoExitFn
    /\ subscribers = <<>>
    /\ timeoutIds = <<>>
    /\ timers = <<>>
    /\ rootNode = <<>>
    /\ active = <<>>
    /\ clone = <<>>
    /\ saved = <<>>
    /\ trace = <<>>
    /\ last = [op |-> "create", ev |-> "none", pre |-> Snapshot, started |-> FALSE, restores |-> 0]

\* machine.send({ type: ev })
SendV1(ev) ==
    /\ impl = "v1"
    /\ Commit(sendV1(Machine, cfg, ev), "send", ev)

\* machine.subscribe(callback)
SubscribeV1(callback) ==
    /\ impl = "v1"
    /\ Len(subscribers) < MaxSubs
    /\ Commit(subscribe(Machine, callback), "subscribe", "none")

\* machine.fromJSON(json) with the string kept from an earlier toJSON()
FromJSONV1 ==
    /\ impl = "v1"
    /\ saved # <<>>
    /\ last.restores < MaxRestores
    /\ Return(fromJSONV1(Machine, saved[1].json), "fromJSON", "none")
    /\ saved' = <<>>

NextV1 ==
    \/ \E ev \in EventTypesV1(cfg) : SendV1(ev)
    \/ \E callback \in Callbacks : SubscribeV1(callback)

\* new Machine(config)
InitTree ==
    /\ impl = "tree"
    /\ cfg \in TreeConfigs
    /\ rootNode = buildNodeTree(TreeConfig(cfg))
    /\ active = [n \in NodeIds(rootNode) |-> FALSE]
    /\ clone = <<>>
    /\ currentState = Single("none")
    /\ thrown = "none"
    /\ context = Ctx(0, "keep")
    /\ exitFn = NoExitFn
    /\ subscribers = <<>>
    /\ timeoutIds = <<>>
    /\ timers = [n \in NodeIds(rootNode) |-> 0]
    /\ saved = <<>>
    /\ trace = <<>>
    /\ last = [op |-> "create", ev |-> "none", pre |-> Snapshot, started |-> FALSE, restores |-> 0]

\* the node tree of the machine
RootNode == [active |-> active, timers |-> timers, context |-> context, trace |-> <<>>]

\* a method of the machine returns with its node tree as t
MachineReturn(t, op, ev) ==
    /\ t.context.count <= MaxCount
    /\ active' = t.active
    /\ timers' = t.timers
    /\ context' = t.context
    /\ trace' = t.trace
    /\ last' = [op |-> op, ev |-> ev, pre |-> Snapshot, started |-> last.started \/ op = "start",
                restores |-> last.restores]
    /\ UNCHANGED <<impl, cfg, currentState, exitFn, subscribers, timeoutIds, rootNode, clone,
                   thrown, saved>>

\* machine.stop() that leaves the root node as it is
MachineStopIdle ==
    /\ impl = "tree"
    /\ MachineReturn(RootNode, "stop", "none")

\* machine.start(): this.#rootNode.enter()
MachineStart ==
    /\ impl = "tree"
    /\ MachineReturn(NodeEnter(rootNode, RootNode), "start", "none")

\* machine.stop(): this.#rootNode.exit()
MachineStop ==
    /\ impl = "tree"
    /\ MachineReturn(NodeExit(rootNode, RootNode), "stop", "none")

\* machine.dispatch(event): this.#rootNode.dispatch(event)
MachineDispatch(ev) ==
    /\ impl = "tree"
    /\ MachineReturn(NodeDispatch(rootNode, RootNode, ev), "dispatch", ev)

\* the platform runs the pending timer callback of a node
MachineTimerFires(id) ==
    /\ impl = "tree"
    /\ timers[id] > 0
    /\ MachineReturn(NodeTimeout(rootNode, RootNode, id), "timeout", id)

\* machine.subscribe(handler): this.#subscription.subscribe(handler). The
\* subscription is a private field of the Machine that no other method uses.
MachineSubscribe(handler) ==
    /\ impl = "tree"
    /\ Len(subscribers) < MaxSubs
    /\ subscribers' = Append(subscribers, handler)
    /\ trace' = <<>>
    /\ last' = [op |-> "subscribe", ev |-> "none", pre |-> Snapshot, started |-> last.started,
                restores |-> last.restores]
    /\ UNCHANGED <<impl, cfg, currentState, context, exitFn, timeoutIds, timers, rootNode,
                   active, clone, thrown, saved>>

NextTree ==
    \/ MachineStart
    \/ MachineStop
    \/ \E handler \in Callbacks : MachineSubscribe(handler)
    \/ \E ev \in TreeEvents : MachineDispatch(ev)
    \/ \E id \in DOMAIN timers : MachineTimerFires(id)

Init == InitSM \/ InitV1 \/ InitTree

Next == NextSM \/ NextV1 \/ NextTree

Spec == Init /\ [][Next]_vars

(***************************************************************************)
(* The machines of createStateMachine driven through toJSON and fromJSON   *)
(* as well: a caller takes a snapshot, goes on using the machine, and      *)
(* restores the snapshot later.                                            *)
(***************************************************************************)
InitJSON == InitSM \/ InitV1

NextJSON ==
    \/ Start
    \/ \E ev \in EventTypes(cfg) : Send(ev)
    \/ \E state \in DOMAIN timers, tracked \in BOOLEAN : TimerFires(state, tracked)
    \/ \E ev \in EventTypesV1(cfg) : SendV1(ev)
    \/ ToJSON
    \/ FromJSON
    \/ FromJSONV1

SpecJSON == InitJSON /\ [][NextJSON]_vars

(***************************************************************************)
(* Subscribers that subscribe: an event bus of createEventBus, and the     *)
(* machines of createStateMachine, given callbacks of which one subscribes *)
(* a further callback whenever it is called.                               *)
(***************************************************************************)
BusCallbacks == Callbacks \cup {"adder"}

\* createEventBus()
InitBus ==
    /\ impl = "bus"
    /\ cfg = "bus"
    /\ currentState = Single("none")
    /\ thrown = "none"
    /\ context = Ctx(0, "keep")
    /\ exitFn = NoExitFn
    /\ subscribers = <<>>
    /\ timeoutIds = <<>>
    /\ timers = <<>>
    /\ rootNode = <<>>
    /\ active = <<>>
    /\ clone = <<>>
    /\ saved = <<>>
    /\ trace = <<>>
    /\ last = [op |-> "create", ev |-> "none", pre |-> Snapshot, started |-> FALSE, restores |-> 0]

\* bus.subscribe(callback)
BusSubscribe(callback) ==
    /\ impl = "bus"
    /\ Len(subscribers) < MaxSubs
    /\ Commit(subscribe(Machine, callback), "subscribe", "none")

\* bus.publish(event)
BusPublish(event) ==
    /\ impl = "bus"
    /\ Commit(publish(Machine, event), "publish", event)

\* machine.subscribe(callback) of either generation of createStateMachine
SubscribeAny(callback) ==
    /\ impl \in {"sm", "v1"}
    /\ Len(subscribers) < MaxSubs
    /\ Commit(subscribe(Machine, callback), "subscribe", "none")

InitSubscribers == InitBus \/ InitSM \/ InitV1

NextSubscribers ==
    \/ \E callback \in BusCallbacks : BusSubscribe(callback)
    \/ \E event \in BusEvents : BusPublish(event)
    \/ \E callback \in BusCallbacks : SubscribeAny(callback)
    \/ Start
    \/ \E ev \in EventTypes(cfg) : Send(ev)
    \/ \E ev \in EventTypesV1(cfg) : SendV1(ev)

SpecSubscribers == InitSubscribers /\ [][NextSubscribers]_vars

(***************************************************************************)
(* Two machines created by createStateMachine from one configuration       *)
(* object. An object is named by a reference, and two holders of one       *)
(* reference see each other's changes. The variables of the closure hold   *)
(* the first machine; clone holds the second machine, the references of    *)
(* the two context objects and the value of config.context. The second     *)
(* machine is given every call the first is given, each right after the    *)
(* first machine's ("both"), or none ("first").                            *)
(***************************************************************************)
\* structuredClone that hands back the object it was given
structuredCloneSame(object, fresh) == object

\* structuredClone(object): a new object, named fresh, holding a copy of the value
structuredClone(object, fresh) == fresh

\* the object the closure's context variable refers to: structuredClone(config.context)
\* in stateMachine.ts, config.context itself in the first generation
ContextOf(generation, fresh) ==
    IF generation = "sm" THEN structuredClone("config.context", fresh) ELSE "config.context"

\* the value of config.context while only the first machine exists
ConfigNow ==
    IF ContextOf(impl, "context of first") = "config.context" THEN context ELSE ConfigContext(cfg)

\* the closure's variables when createStateMachine(config) returns
NewMachine ==
    [currentState |-> IF impl = "sm" THEN initializeState(cfg) ELSE InitialState(cfg),
     context |-> ConfigNow, exitFn |-> NoExitFn, subscribers |-> <<>>,
     timeoutIds |-> [s \in DOMAIN timeoutIds |-> "none"], timers |-> [s \in DOMAIN timers |-> 0],
     trace |-> <<>>, over |-> FALSE, thrown |-> "none"]

TwinModes == {"both", "first"}

\* no call of the first machine is waiting to be made on the second
NoCall == [op |-> "none", ev |-> "none", tracked |-> FALSE]

\* const second = createStateMachine(config), right after the first
CreateSecond(mode) ==
    /\ impl \in {"sm", "v1"}
    /\ clone = <<>>
    /\ thrown = "none"
    /\ last.op = "create"
    /\ clone' = <<[mode |-> mode, m |-> NewMachine, config |-> ConfigNow, pending |-> NoCall,
                   first |-> ContextOf(impl, "context of first"),
                   second |-> ContextOf(impl, "context of second")]>>
    /\ trace' = <<>>
    /\ last' = [op |-> "create second", ev |-> "none", pre |-> Snapshot, started |-> last.started,
                restores |-> last.restores]
    /\ UNCHANGED <<impl, cfg, currentState, context, exitFn, subscribers, timeoutIds, timers,
                   rootNode, active, thrown, saved>>

\* a call on the first machine returns a: as Return, and an object that the
\* second machine or the configuration holds too has the value the call left
ReturnFirst(t, a, op, ev, tracked) ==
    /\ thrown = "none"
    /\ t.pending = NoCall
    /\ ~a.over
    /\ currentState' = a.currentState
    /\ context' = a.context
    /\ exitFn' = a.exitFn
    /\ subscribers' = a.subscribers
    /\ timeoutIds' = a.timeoutIds
    /\ timers' = a.timers
    /\ trace' = a.trace
    /\ last' = [op |-> op, ev |-> ev, pre |-> Snapshot, started |-> last.started \/ op = "start",
                restores |-> last.restores]
    /\ thrown' = a.thrown
    /\ clone' = <<[t EXCEPT !.m.context = IF t.second = t.first THEN a.context ELSE @,
                            !.config = IF t.first = "config.context" THEN a.context ELSE @,
                            !.pending = IF t.mode = "both"
                                        THEN [op |-> op, ev |-> ev, tracked |-> tracked]
                                        ELSE NoCall]>>
    /\ UNCHANGED <<impl, cfg, rootNode, active, saved>>

\* the same call on the second machine returns b
ReturnSecond(t, b) ==
    /\ thrown = "none"
    /\ ~b.over
    /\ clone' = <<[t EXCEPT !.m = b,
                            !.config = IF t.second = "config.context" THEN b.context ELSE @,
                            !.pending = NoCall]>>
    /\ context' = IF t.second = t.first THEN b.context ELSE context
    /\ thrown' = b.thrown
    /\ UNCHANGED <<impl, cfg, currentState, exitFn, subscribers, timeoutIds, timers, rootNode, active,
                   saved, trace, last>>

\* the closure's variables of the second machine; its notifications are
\* collected per call
SecondMachine == [clone[1].m EXCEPT !.trace = <<>>]

\* the machine the next call is made on: the second one when a call of the
\* first is waiting to be repeated on it
Callee == IF clone[1].pending = NoCall THEN Machine ELSE SecondMachine

\* the call op may be made now: any call on the first machine, or the waiting
\* call on the second
MayCall(op, ev, tracked) ==
    /\ clone # <<>>
    /\ clone[1].pending \in {NoCall, [op |-> op, ev |-> ev, tracked |-> tracked]}

\* the call returned r
ReturnEither(t, r, op, ev, tracked) ==
    IF t.pending = NoCall THEN ReturnFirst(t, r, op, ev, tracked) ELSE ReturnSecond(t, r)

\* first.start(), and then second.start()
TwinStart ==
    /\ impl = "sm"
    /\ MayCall("start", "none", FALSE)
    /\ ReturnEither(clone[1], start(Callee, cfg), "start", "none", FALSE)

\* first.send({ type: ev }), and then second.send({ type: ev })
TwinSend(ev) ==
    /\ impl = "sm"
    /\ MayCall("send", ev, FALSE)
    /\ ReturnEither(clone[1], send(Callee, cfg, ev, 0), "send", ev, FALSE)

\* the same of the first generation
TwinSendV1(ev) ==
    /\ impl = "v1"
    /\ MayCall("send", ev, FALSE)
    /\ ReturnEither(clone[1], sendV1(Callee, cfg, ev), "send", ev, FALSE)

\* first.subscribe(callback), and then second.subscribe(callback)
TwinSubscribe(callback) ==
    /\ impl \in {"sm", "v1"}
    /\ MayCall("subscribe", callback, FALSE)
    /\ Len(Callee.subscribers) < MaxSubs
    /\ ReturnEither(clone[1], subscribe(Callee, callback), "subscribe", callback, FALSE)

\* The platform runs a pending setTimeout callback of state of the first
\* machine, and then the same pending callback of the second.
TwinTimerFires(state, tracked) ==
    /\ impl = "sm"
    /\ MayCall("timeout", state, tracked)
    /\ Callee.timers[state] > 0
    /\ IF tracked THEN Callee.timeoutIds[state] = "live"
       ELSE Callee.timers[state] > (IF Callee.timeoutIds[state] = "live" THEN 1 ELSE 0)
    /\ ReturnEither(clone[1],
                    timeoutCallback([Callee EXCEPT !.timers[state] = @ - 1,
                                                   !.timeoutIds[state] = IF tracked THEN "dead" ELSE @],
                                    cfg, state),
                    "timeout", state, tracked)

NextTwin ==
    \/ \E mode \in TwinModes : CreateSecond(mode)
    \/ TwinStart
    \/ \E ev \in EventTypes(cfg) : TwinSend(ev)
    \/ \E ev \in EventTypesV1(cfg) : TwinSendV1(ev)
    \/ TwinSubscribe("cb1")
    \/ \E state \in DOMAIN timers, tracked \in BOOLEAN : TwinTimerFires(state, tracked)

\* the configurations two machines are created from: guards that read the
\* context, actions that change it, timers, regions
TwinConfigs == {"guarded", "traffic", "switch", "counter", "regions"}

InitTwin == (InitSM \/ InitV1) /\ cfg \in TwinConfigs

SpecTwin == InitTwin /\ [][NextTwin]_vars

(***************************************************************************)
(* A machine of the Machine class and the machine its clone() returned,    *)
(* both driven through start, dispatch, stop and their timers.             *)
(***************************************************************************)
\* the node tree of the clone: its own, or the original's when both machines
\* hold the same root node
CloneNode ==
    IF clone[1].root = "shared" THEN RootNode
    ELSE [active |-> clone[1].active, timers |-> clone[1].timers, context |-> clone[1].context,
          trace |-> <<>>]

\* a method of the clone returns with its node tree as t
CloneReturn(t, op, ev) ==
    /\ t.context.count <= MaxCount
    /\ IF clone[1].root = "shared"
       THEN /\ active' = t.active
            /\ timers' = t.timers
            /\ context' = t.context
            /\ UNCHANGED clone
       ELSE /\ clone' = <<[root |-> "own", active |-> t.active, timers |-> t.timers,
                           context |-> t.context]>>
            /\ UNCHANGED <<active, timers, context>>
    /\ trace' = t.trace
    /\ last' = [op |-> op, ev |-> ev, pre |-> Snapshot, started |-> last.started,
                restores |-> last.restores]
    /\ UNCHANGED <<impl, cfg, currentState, exitFn, subscribers, timeoutIds, rootNode,
                   thrown, saved>>

\* clone() that hands the root node itself to the new Machine
MachineCloneShared ==
    /\ impl = "tree"
    /\ clone = <<>>
    /\ clone' = <<[MachineNodeClone(rootNode, RootNode) EXCEPT !.root = "shared"]>>
    /\ trace' = <<>>
    /\ last' = [op |-> "clone", ev |-> "none", pre |-> Snapshot, started |-> last.started,
                restores |-> last.restores]
    /\ UNCHANGED <<impl, cfg, currentState, context, exitFn, subscribers, timeoutIds, timers,
                   rootNode, active, thrown, saved>>

\* machine.clone(): new Machine(this.#rootNode.clone())
MachineClone ==
    /\ impl = "tree"
    /\ clone = <<>>
    /\ clone' = <<MachineNodeClone(rootNode, RootNode)>>
    /\ trace' = <<>>
    /\ last' = [op |-> "clone", ev |-> "none", pre |-> Snapshot, started |-> last.started,
                restores |-> last.restores]
    /\ UNCHANGED <<impl, cfg, currentState, context, exitFn, subscribers, timeoutIds, timers,
                   rootNode, active, thrown, saved>>

\* start(), stop(), dispatch(event) and a timer callback of the clone
CloneStart ==
    /\ impl = "tree" /\ clone # <<>>
    /\ CloneReturn(NodeEnter(rootNode, CloneNode), "clone.start", "none")

CloneStop ==
    /\ impl = "tree" /\ clone # <<>>
    /\ CloneReturn(NodeExit(rootNode, CloneNode), "clone.stop", "none")

CloneDispatch(ev) ==
    /\ impl = "tree" /\ clone # <<>>
    /\ CloneReturn(NodeDispatch(rootNode, CloneNode, ev), "clone.dispatch", ev)

CloneTimerFires(id) ==
    /\ impl = "tree" /\ clone # <<>>
    /\ CloneNode.timers[id] > 0
    /\ CloneReturn(NodeTimeout(rootNode, CloneNode, id), "clone.timeout", id)

NextClone ==
    \/ MachineStart
    \/ MachineStop
    \/ \E ev \in TreeEvents : MachineDispatch(ev)
    \/ \E id \in DOMAIN timers : MachineTimerFires(id)
    \/ MachineClone
    \/ CloneStart
    \/ CloneStop
    \/ \E ev \in TreeEvents : CloneDispatch(ev)
    \/ \E id \in DOMAIN timers : CloneTimerFires(id)

SpecClone == InitTree /\ [][NextClone]_vars

(***************************************************************************)
(* The active configuration of a createStateMachine machine as a set of    *)
(* nodes: README "State Representation" names a nested state by its path   *)
(* in dot notation, so a node is active when getState() holds its path or  *)
(* the path of one of its descendants.                                     *)
(***************************************************************************)
DotPath(parent, child) == parent \o "." \o child

Range(f) == {f[i] : i \in DOMAIN f}

\* the children of a top-level state, by path
ChildPaths(c, state) ==
    {DotPath(state, StateDef(c, state).states[i].name) : i \in DOMAIN StateDef(c, state).states}

ActivePaths == Range(flattenState(currentState))

IsActive(c, state) == state \in ActivePaths \/ ChildPaths(c, state) \cap ActivePaths # {}

\* C1: after start(), whatever is sent, the active configuration is valid: an
\* active compound node has exactly one active child, an active parallel node
\* has all its children active, and no node is active under an inactive parent.
C1_ValidConfiguration ==
    /\ (impl = "sm" /\ last.started) =>
          \A state \in DOMAIN States(cfg) :
              (IsActive(cfg, state) /\ ChildPaths(cfg, state) # {}) =>
                  IF StateDef(cfg, state).isParallel
                  THEN ChildPaths(cfg, state) \subseteq ActivePaths
                  ELSE Cardinality(ChildPaths(cfg, state) \cap ActivePaths) = 1
    /\ impl = "tree" =>
          LET children == {rootNode.children[i].id : i \in DOMAIN rootNode.children}
          IN  /\ active[rootNode.id] => Cardinality({n \in children : active[n]}) = 1
              /\ \A n \in children : active[n] => active[rootNode.id]

\* C2: before start() no child of the root is active; start() makes the child
\* named by config.initial active and leaves every other child of the root
\* inactive, wherever that child stands in the declaration order.
C2_InitialChildActive ==
    impl = "tree" =>
        LET children == {rootNode.children[i].id : i \in DOMAIN rootNode.children}
        IN  /\ ~last.started => \A n \in children : ~active[n]
            /\ (last.op = "start" /\ ~last.pre.active[rootNode.id]) =>
                   \A n \in children : active[n] <=> n = TreeConfig(cfg).initial

\* start() was called on the machine of the test 'set initial state' (initial: 'b')
C2_Witness ==
    /\ impl = "tree" /\ cfg = "initial b"
    /\ last.op = "start" /\ ~last.pre.active["root"]
    /\ active["b"] /\ ~active["a"] /\ ~active["c"]

(***************************************************************************)
(* What the last call did, read from the trace and the state before it.    *)
(***************************************************************************)
Entries(k) == SelectSeq(trace, LAMBDA e : e.k = k)

\* the calls of subscription i during the last call
Notifications(i) == SelectSeq(trace, LAMBDA e : e.k = "notify" /\ e.sub = i)

\* the transitions map of a state of the configuration (both generations)
Handlers(state) ==
    IF impl = "sm"
    THEN (IF HasState(cfg, state) THEN StateDef(cfg, state).on ELSE <<>>)
    ELSE (IF state \in DOMAIN TransitionMap(cfg) THEN TransitionMap(cfg)[state] ELSE <<>>)

\* the last call was a send, from outside, of an event type for which no state
\* that was active has a handler
UnhandledSend ==
    /\ impl \in {"sm", "v1"}
    /\ last.op = "send"
    /\ \A state \in Range(flattenState(last.pre.currentState)) : last.ev \notin DOMAIN Handlers(state)

\* C3: a top-level send that performs a transition calls every subscriber exactly
\* once, with the resulting state and context, however many regions moved.
C3_NotifiedOncePerDispatch ==
    (impl \in {"sm", "v1"} /\ last.op = "send" /\ Len(Entries("transition")) > 0) =>
        \A i \in 1..Len(subscribers) :
            /\ Len(Notifications(i)) = 1
            /\ Notifications(i)[1].st = flattenState(currentState)
            /\ Notifications(i)[1].ctx = context

\* C4: a send whose event type no active state handles calls no subscriber.
C4_NoNotificationWhenUnhandled ==
    UnhandledSend => Len(Entries("notify")) = 0

\* C5: a send whose event type no active state handles leaves getState() and
\* the context as they were.
C5_UnhandledLeavesStateAndContext ==
    UnhandledSend => (currentState = last.pre.currentState /\ context = last.pre.context)

\* an unhandled event was sent after the machine had moved and counted
C5_Witness ==
    /\ UnhandledSend
    /\ last.ev = "UNRELATED"
    /\ currentState # (IF impl = "sm" THEN initializeState(cfg) ELSE InitialState(cfg))
    /\ context.count > 0

\* the candidates whose guard passes (or is absent) for a context and an event
Passing(ts, ctx, ev) ==
    {i \in 1..Len(ts) : ts[i].guard = "none" \/ Guard(ts[i].guard, ctx, ev)}

Min(S) == CHOOSE i \in S : \A j \in S : i <= j

\* what the send itself (not a send nested in it) ran
TopLevel(k) == SelectSeq(trace, LAMBDA e : e.k = k /\ e.lvl = 0)

Names(entries) == [i \in 1..Len(entries) |-> entries[i].who]

\* the last call was a send, from outside, that returned, to a machine in one
\* state that declares candidates for the event
HandledSend ==
    /\ impl \in {"sm", "v1"}
    /\ last.op = "send"
    /\ thrown = "none"
    /\ ~last.pre.currentState.arr
    /\ last.ev \in DOMAIN Handlers(last.pre.currentState.v[1])

\* C6: the candidates of an event are tried in declared order and the first
\* whose guard passes is the only one taken; with guards [false, true] the
\* second fires; when every guard is false nothing fires and the context and
\* the state stay as they were.
C6_FirstPassingGuardWins ==
    HandledSend =>
        LET ts == Handlers(last.pre.currentState.v[1])[last.ev].ts
            pass == Passing(ts, last.pre.context, last.ev)
        IN  IF pass = {}
            THEN /\ Len(Entries("transition")) = 0
                 /\ Len(Entries("action")) = 0
                 /\ context = last.pre.context
                 /\ currentState = last.pre.currentState
            ELSE /\ Names(TopLevel("transition")) = <<ts[Min(pass)].target>>
                 /\ Names(TopLevel("action")) =
                        (IF ts[Min(pass)].action.present THEN <<ts[Min(pass)].action.name>> ELSE <<>>)
                 /\ (cfg = "guarded" /\ last.ev = "E") =>
                        /\ currentState = Single(ts[Min(pass)].target)
                        /\ context.count = last.pre.context.count + ts[Min(pass)].action.inc

\* E was sent in state a with the first guard false and the second true, and
\* the second candidate was taken
C6_Witness ==
    /\ impl = "sm" /\ cfg = "guarded"
    /\ last.op = "send" /\ last.ev = "E"
    /\ last.pre.currentState = Single("a")
    /\ Passing(StateDef(cfg, "a").on["E"].ts, last.pre.context, "E") = {2}
    /\ currentState = Single("c")
    /\ Names(Entries("action")) = <<"a.E.2">>

\* C7: a transition whose target is its source state calls the state's exit
\* action once and then its entry action once.
C7_SelfTransitionExitThenEntry ==
    (/\ impl = "sm" /\ HandledSend
     /\ HasState(cfg, last.pre.currentState.v[1])
     /\ Names(TopLevel("transition")) = <<last.pre.currentState.v[1]>>) =>
        LET stateDef == StateDef(cfg, last.pre.currentState.v[1])
        IN  Names(SelectSeq(trace, LAMBDA e : e.k \in {"onExit", "onEntry"} /\ e.lvl = 0)) =
                (IF stateDef.onExit.present THEN <<stateDef.onExit.name>> ELSE <<>>)
                \o (IF stateDef.onEntry.present THEN <<stateDef.onEntry.name>> ELSE <<>>)

\* C8: a cleanup closure returned by an action is invoked once, at the next
\* exit of the state its transition entered, and never again.
C8_CleanupInvokedOnce ==
    impl \in {"sm", "v1"} => exitFn.calls <= 1

\* C9: the oven starts as power off, temperature cold; TURN_ON moves only the
\* power region, and the state afterwards still holds both regions.
C9_OvenRegions ==
    (impl \in {"sm", "v1"} /\ cfg = "oven") =>
        /\ last.op = "create" => currentState = Array(<<"off", "cold">>)
        /\ (last.op = "send" /\ last.ev = "TURN_ON"
            /\ last.pre.currentState = Array(<<"off", "cold">>)) =>
               currentState = Array(<<"on", "cold">>)

\* C10: every active region is matched on its own: a region that has an enabled
\* handler for the event takes it, a region that has none keeps its state, and
\* no region's transition replaces or removes another region's state.
C10_RegionsIndependent ==
    (impl \in {"sm", "v1"} /\ last.op = "send" /\ last.pre.currentState.arr) =>
        LET before == last.pre.currentState.v
            Target(state) ==
                IF last.ev \in DOMAIN Handlers(state)
                   /\ Passing(Handlers(state)[last.ev].ts, last.pre.context, last.ev) # {}
                THEN LET ts == Handlers(state)[last.ev].ts
                     IN  ts[Min(Passing(ts, last.pre.context, last.ev))].target
                ELSE state
        IN  currentState = Array([i \in 1..Len(before) |-> Target(before[i])])

\* C11: in the traffic-light machine start() enters stop; when the timer of stop
\* fires in stop the state becomes prepareToGo; in go an event of an unrelated
\* type changes nothing, and STOP in go moves the machine to waitingToStop.
C11_TrafficLight ==
    (impl = "sm" /\ cfg = "traffic") =>
        /\ last.op = "start" => currentState = Single("stop")
        /\ (last.op = "timeout" /\ last.ev = "stop" /\ last.pre.currentState = Single("stop")) =>
               currentState = Single("prepareToGo")
        /\ (last.op = "send" /\ last.ev = "UNRELATED" /\ last.pre.currentState = Single("go")) =>
               (currentState = Single("go") /\ context = last.pre.context)
        /\ (last.op = "send" /\ last.ev = "STOP" /\ last.pre.currentState = Single("go")) =>
               currentState = Single("waitingToStop")

\* C12: a transition into a state that has nested states enters its initial
\* child: TOGGLE from off reports the path on.low, and a further TOGGLE is
\* handled by the active child and reports on.high.
C12_NestedInitialChild ==
    (impl = "sm" /\ cfg = "light" /\ last.op = "send" /\ last.ev = "TOGGLE") =>
        /\ last.pre.currentState = Single("off") =>
               currentState = Single(DotPath("on", "low"))
        /\ last.pre.currentState \in {Single("on"), Single(DotPath("on", "low"))} =>
               currentState = Single(DotPath("on", "high"))

\* C13: restoring a machine from a snapshot it serialized (fromJSON of a string
\* toJSON returned) yields the active configuration and a context equal to the
\* machine's at the instant of the snapshot.
C13_RestoreRoundTrip ==
    (impl \in {"sm", "v1"} /\ last.op = "fromJSON") =>
        /\ currentState = last.pre.saved[1].currentState
        /\ context = last.pre.saved[1].context

\* C14: after a snapshot is restored, every state it marks active that has a
\* delayed transition has a timer armed, and no timer is armed for a state that
\* is not active in the snapshot.
C14_TimersAfterRestore ==
    (impl = "sm" /\ last.op = "fromJSON") =>
        \A state \in DOMAIN timers :
            IF state \in Range(flattenState(currentState))
            THEN StateDef(cfg, state).onTimeout.present =>
                    (timeoutIds[state] = "live" /\ timers[state] > 0)
            ELSE timers[state] = 0

\* the numbers of children marked initial that the nodes of a configuration have:
\* the root's, and those of every state that has nested states and is not parallel
InitialCounts(c) ==
    {Len(InitialStates(c, StateNames(c), 1))}
    \cup {Cardinality({i \in DOMAIN StateDef(c, s).states : StateDef(c, s).states[i].isInitial}) :
            s \in {t \in DOMAIN States(c) :
                      StateDef(c, t).states # <<>> /\ ~StateDef(c, t).isParallel}}

\* C15: constructing a machine in which a compound node has no child marked
\* initial fails with an error thrown by the constructor.
C15_NoInitialFails ==
    (impl = "sm" /\ 0 \in InitialCounts(cfg)) => thrown # "none"

\* the number of initial children of the states that have nested states and are
\* not parallel (the root's regions are its states marked isInitial)
NestedInitialCounts(c) ==
    {Cardinality({i \in DOMAIN StateDef(c, s).states : StateDef(c, s).states[i].isInitial}) :
        s \in {t \in DOMAIN States(c) :
                  StateDef(c, t).states # <<>> /\ ~StateDef(c, t).isParallel}}

\* C16: constructing a machine in which a compound node has more than one child
\* marked initial fails with an error thrown by the constructor.
C16_MultipleInitialFails ==
    (impl = "sm" /\ \E n \in NestedInitialCounts(cfg) : n > 1) => thrown # "none"

\* C17: after stop() returns no node is active and no timer is armed, and it
\* stays so until the machine is started again: no delayed transition fires
\* after stop.
C17_StopLeavesNothing ==
    impl = "tree" =>
        /\ last.op = "stop" => ~active[rootNode.id]
        /\ ~active[rootNode.id] => \A n \in DOMAIN active : ~active[n] /\ timers[n] = 0

\* stop() was called while a was active with its timer armed
C17_Witness ==
    /\ impl = "tree" /\ last.op = "stop"
    /\ last.pre.active["a"] /\ last.pre.timers["a"] = 1
    /\ ~active["a"] /\ timers["a"] = 0

\* what the clone's getters show in a snapshot of the variables
CloneOf(snapshot) ==
    IF snapshot.clone[1].root = "shared"
    THEN [active |-> snapshot.active, context |-> snapshot.context]
    ELSE [active |-> snapshot.clone[1].active, context |-> snapshot.clone[1].context]

\* C18: the machine clone() returned shares nothing with the original: start,
\* dispatch, stop and timers of the clone leave the original's active
\* configuration, context and timers as they were, and those of the original
\* leave the clone's.
C18_CloneIndependent ==
    (impl = "tree" /\ clone # <<>>) =>
        /\ last.op \in {"clone", "clone.start", "clone.dispatch", "clone.stop", "clone.timeout"} =>
               (active = last.pre.active /\ context = last.pre.context /\ timers = last.pre.timers)
        /\ last.op \in {"start", "dispatch", "stop", "timeout"} =>
               CloneOf(Snapshot) = CloneOf(last.pre)

\* the clone took a transition that changed its context while the original,
\* started as well, was in another state
C18_Witness ==
    /\ impl = "tree" /\ clone # <<>>
    /\ last.op = "clone.dispatch" /\ last.ev = "NEXT"
    /\ clone[1].active # last.pre.clone[1].active
    /\ clone[1].context # last.pre.clone[1].context
    /\ active[rootNode.id]
    /\ active # clone[1].active

\* C19: a callback registered with Machine.subscribe is invoked after every
\* Machine.dispatch that changed the active configuration, with the new
\* configuration.
C19_MachineSubscribersNotified ==
    (impl = "tree" /\ last.op = "dispatch" /\ active # last.pre.active) =>
        \A i \in 1..Len(subscribers) :
            /\ Len(Notifications(i)) = 1
            /\ Notifications(i)[1].st = active

\* C20: subscribe returns an unsubscribe handle: calling it does not fail and
\* removes the subscription it was returned for, and no other.
C20_UnsubscribeHandle ==
    (impl \in {"sm", "v1"} /\ last.op = "unsubscribe") =>
        /\ thrown = "none"
        /\ subscribers = SubSeq(last.pre.subscribers, 1, Len(last.pre.subscribers) - 1)


(***************************************************************************)
(* getActive() of the Machine class against the node tree.                 *)
(***************************************************************************)
\* the ids of the children of a node
ChildIds(tree) == {tree.children[i].id : i \in 1..Len(tree.children)}

\* the nodes of a tree that have no children
RECURSIVE AtomicNodes(_)
AtomicNodes(tree) ==
    IF Len(tree.children) = 0 THEN {tree.id}
    ELSE UNION {AtomicNodes(tree.children[i]) : i \in 1..Len(tree.children)}

\* structure has one entry per child of tree: the active flag of an atomic
\* child, and for a child with children a structure that mirrors that child
RECURSIVE Mirrors(_, _)
Mirrors(tree, structure) ==
    /\ DOMAIN structure = ChildIds(tree)
    /\ \A id \in ChildIds(tree) :
          IF Len(Child(tree, id).children) = 0
          THEN structure[id] = active[id]
          ELSE Mirrors(Child(tree, id), structure[id])

\* the ids whose entry in the structure is true
RECURSIVE TrueEntries(_, _)
TrueEntries(tree, structure) ==
    UNION {IF Len(Child(tree, id).children) = 0
           THEN (IF structure[id] THEN {id} ELSE {})
           ELSE TrueEntries(Child(tree, id), structure[id]) : id \in ChildIds(tree)}

\* C21: getActive() mirrors the state tree: an atomic node maps to its active
\* flag, a node with children maps to the mapping of its children, and the
\* entries equal to true are exactly the active atomic nodes
C21_GetActiveMirrorsTree ==
    impl = "tree" =>
        /\ Mirrors(rootNode, getActive(rootNode, active))
        /\ TrueEntries(rootNode, getActive(rootNode, active))
               = {n \in AtomicNodes(rootNode) : active[n]}

C21_Witness ==
    /\ impl = "tree"
    /\ cfg = "nested"
    /\ last.op = "dispatch"
    /\ active["c2"]
    /\ getActive(rootNode, active)["c"]["c2"]
    /\ ~getActive(rootNode, active)["c"]["c1"]
    /\ ~getActive(rootNode, active)["a"]


(***************************************************************************)
(* Dispatches that go wrong in createStateMachine of stateMachine.ts.      *)
(***************************************************************************)
\* the calls of kind k in the trace of the last call
Calls(k) == {i \in DOMAIN trace : trace[i].k = k}

\* the last send met a guard that throws
ThrowingGuardTried ==
    LET state == last.pre.currentState.v[1]
    IN  /\ HasState(cfg, state)
        /\ last.ev \in DOMAIN StateDef(cfg, state).on
        /\ GuardThrows(StateDef(cfg, state).on[last.ev].ts[1].guard)

\* C22: an exception of a guard or of a transition action reaches the caller of
\* send, and what was done before the throw stays done: the timer of the source
\* state is cancelled, the stored cleanup has run, the context change of the
\* action is kept, and nothing is put back
C22_ThrowPropagatesNoRollback ==
    (impl = "sm" /\ cfg = "faulty" /\ last.op = "send") =>
        /\ ThrowingGuardTried => thrown = "Error: guard"
        /\ \A i \in Calls("action") :
              trace[i].who \in {"a.BOOM", "b.BACK"} => thrown = "Error: " \o trace[i].who
        /\ thrown # "none" =>
              /\ timeoutIds[last.pre.currentState.v[1]] = "none"
              /\ currentState = last.pre.currentState
              /\ exitFn.calls = last.pre.exitFn.calls + Cardinality(Calls("exitFn"))
              /\ context.count = last.pre.context.count + Cardinality(Calls("action"))
              /\ Calls("notify") = {}

C22_Witness ==
    /\ impl = "sm" /\ cfg = "faulty"
    /\ last.op = "send" /\ last.ev = "BACK"
    /\ thrown = "Error: b.BACK"
    /\ Calls("exitFn") # {}
    /\ exitFn.calls = 1
    /\ context.count > last.pre.context.count

\* a throwing guard, and an action that throws while the timer of its state was
\* armed, both reach the caller
C22_GuardWitness ==
    /\ impl = "sm" /\ cfg = "faulty"
    /\ last.op = "send" /\ last.ev = "GUARD"
    /\ thrown = "Error: guard"
    /\ last.pre.timeoutIds["a"] = "live"
    /\ timeoutIds["a"] = "none"


\* the transitions the last call took, by the target they declare
TargetsTaken == {trace[i].who : i \in Calls("transition")}

\* C23: taking a transition whose target is no declared state raises an error
\* that reaches the caller of send
C23_UnknownTargetRaises ==
    (impl = "sm" /\ last.op = "send") =>
        \A target \in TargetsTaken :
            (target # "undefined" /\ ~HasState(cfg, target)) => thrown # "none"

\* C24: a transition declared without a target runs its action and leaves the
\* active configuration as it was: no state is entered, and getState() returns
\* what it returned before the send
C24_InternalTransitionKeepsState ==
    (impl = "sm" /\ last.op = "send" /\ "undefined" \in TargetsTaken) =>
        /\ Calls("action") # {}
        /\ Calls("onEntry") = {}
        /\ currentState = last.pre.currentState


\* C25: when an action or entry hook calls send during a dispatch, the nested
\* dispatch is complete before the outer dispatch notifies, and only the
\* outermost dispatch notifies: no notification comes from the nested send
C25_NestedSendDoesNotNotify ==
    (impl = "sm" /\ last.op = "send" /\ thrown = "none") =>
        /\ \A i \in Calls("notify") : trace[i].lvl = 0
        /\ \A i \in Calls("notify"), j \in DOMAIN trace : trace[j].lvl > 0 => j < i


(***************************************************************************)
(* The timers of createStateMachine of stateMachine.ts.                    *)
(***************************************************************************)
\* the states getState() holds
ActiveStates == Range(flattenState(currentState))

\* C26: the delayed action of a state never runs once the state has been
\* exited: every pending timer belongs to a state of the active configuration,
\* and a timer that fires for a state that is not active changes nothing
C26_TimersOnlyForActiveStates ==
    (impl = "sm" /\ thrown = "none") =>
        /\ \A state \in DOMAIN timers : timers[state] > 0 => state \in ActiveStates
        /\ (last.op = "timeout" /\ last.ev \notin Range(flattenState(last.pre.currentState))) =>
               /\ currentState = last.pre.currentState
               /\ context = last.pre.context
               /\ Calls("onTimeout") = {}


\* the last call was a send in state `state` that took no transition there:
\* the event matched no handler of the state, or every guard failed
SendKeeps(state) ==
    /\ impl = "sm" /\ thrown = "none"
    /\ last.op = "send"
    /\ last.pre.currentState = Single(state)
    /\ Calls("transition") = {}

\* C27: the pending timer of a state is destroyed only when the state is
\* exited: a send that does not exit the state leaves its timer armed
C27_TimerSurvivesUnhandledSend ==
    \A state \in DOMAIN timers :
        (SendKeeps(state) /\ last.pre.timeoutIds[state] = "live") =>
            /\ timeoutIds[state] = "live"
            /\ timers[state] = last.pre.timers[state]


\* C28: at most one timer is pending per state at any time: arming a timer for
\* a state that has one armed cancels the earlier one
C28_OneTimerPerState ==
    (impl = "sm" /\ thrown = "none") =>
        \A state \in DOMAIN timers : timers[state] <= 1


\* the last call was a send that took one transition, out of the single state
\* `state`, and no function called send meanwhile
OneTransitionFrom(state) ==
    /\ impl = "sm" /\ thrown = "none"
    /\ last.op = "send"
    /\ last.pre.currentState = Single(state)
    /\ Cardinality(Calls("transition")) = 1
    /\ \A i \in DOMAIN trace : trace[i].lvl = 0

\* C29: within one transition the source is exited first (pending cleanup, exit
\* action, timer cancellation), then the transition's action runs, then the
\* target is entered (entry action, timer arming): the exit action of the source
\* runs, and runs before the action, and the entry action of the target runs
\* after the action
C29_ExitActionEntryOrder ==
    \A state \in DOMAIN timers :
        OneTransitionFrom(state) =>
            /\ timeoutIds[state] # "live" \/ state \in ActiveStates
            /\ \A x \in Calls("exitFn") \cup Calls("onExit"), a \in Calls("action") : x < a
            /\ \A a \in Calls("action") \cup Calls("exitFn") \cup Calls("onExit"),
                  e \in Calls("onEntry") : a < e
            /\ StateDef(cfg, state).onExit.present =>
                  \E x \in Calls("onExit") : trace[x].who = StateDef(cfg, state).onExit.name

\* the order of the steps that stateMachine.ts does run: cleanup, action, entry
C29_OrderOfStepsThatRun ==
    \A state \in DOMAIN timers :
        OneTransitionFrom(state) =>
            /\ \A x \in Calls("exitFn"), a \in Calls("action") : x < a
            /\ \A a \in Calls("action") \cup Calls("exitFn"), e \in Calls("onEntry") : a < e


(***************************************************************************)
(* The order of entry and exit actions in the node tree of the Machine     *)
(* class.                                                                  *)
(***************************************************************************)
\* the ids of the descendants of the node id of a tree
RECURSIVE DescendantIds(_, _)
DescendantIds(tree, id) ==
    IF tree.id = id THEN NodeIds(tree) \ {id}
    ELSE UNION {DescendantIds(tree.children[i], id) : i \in 1..Len(tree.children)}

\* the calls of kind k made for node id during the last call
CallsOf(k, id) == {i \in Calls(k) : trace[i].who = id}

\* C30: entry runs root-to-leaf and exit runs leaf-to-root: on start() and on
\* every transition a node's entry action runs before the entry action of any
\* of its descendants, and on stop() and on every transition a node's exit
\* action runs only after all of its active descendants have been exited
C30_EntryDownExitUp ==
    (impl = "tree" /\ last.op \in {"start", "stop", "dispatch", "timeout"}) =>
        \A id \in NodeIds(rootNode) : \A d \in DescendantIds(rootNode, id) :
            /\ \A i \in CallsOf("onEntry", id), j \in CallsOf("onEntry", d) : i < j
            /\ \A i \in CallsOf("onExit", id) :
                  /\ \A j \in CallsOf("onExit", d) : j < i
                  /\ last.pre.active[d] => CallsOf("onExit", d) # {}
            /\ (active[id] /\ active[d] /\ ~last.pre.active[id]) =>
                  CallsOf("onEntry", id) # {} /\ CallsOf("onEntry", d) # {}

C30_Witness ==
    /\ impl = "tree" /\ cfg = "nested"
    /\ last.op = "dispatch"
    /\ last.pre.active["c1"]
    /\ active["a"]
    /\ Names(trace) = <<"c1", "c", "a">>


(***************************************************************************)
(* start() and stop() called again.                                        *)
(***************************************************************************)
\* this step is a call of start() on a machine that is started, or of stop()
\* on a machine that is stopped
StartAgain ==
    /\ last'.op = "start"
    /\ IF impl = "tree" THEN active[rootNode.id] ELSE impl = "sm" /\ last.started

StopAgain ==
    /\ impl = "tree"
    /\ last'.op = "stop"
    /\ ~active[rootNode.id]

\* C31: start() on a started machine and stop() on a stopped one run no entry
\* or exit action again, arm no further timer and leave the active
\* configuration as it was
C31_StartStopIdempotent ==
    [][(StartAgain \/ StopAgain) =>
          /\ \A i \in DOMAIN trace' : trace'[i].k \notin {"onEntry", "onExit"}
          /\ timers' = timers
          /\ currentState' = currentState
          /\ active' = active]_vars


(***************************************************************************)
(* Guards that return false.                                               *)
(***************************************************************************)
\* the last call was a send of an event that a state of the machine declares a
\* transition for, and the guard of every candidate in every such state
\* returned false
AllGuardsFalse ==
    /\ impl \in {"sm", "v1"}
    /\ last.op = "send"
    /\ thrown = "none"
    /\ \E state \in Range(flattenState(last.pre.currentState)) :
          last.ev \in DOMAIN Handlers(state)
    /\ \A state \in Range(flattenState(last.pre.currentState)) :
          last.ev \in DOMAIN Handlers(state) =>
              /\ \A i \in DOMAIN Handlers(state)[last.ev].ts :
                    ~GuardThrows(Handlers(state)[last.ev].ts[i].guard)
              /\ Passing(Handlers(state)[last.ev].ts, last.pre.context, last.ev) = {}

\* C32: a transition whose guard returns false is skipped entirely: the pending
\* cleanup is not invoked, no transition action, exit action or entry action
\* runs, and the state and the context are after the send what they were before
C32_FalseGuardSkipsTransition ==
    AllGuardsFalse =>
        /\ \A i \in DOMAIN trace : trace[i].k = "notify"
        /\ exitFn = last.pre.exitFn
        /\ currentState = last.pre.currentState
        /\ context = last.pre.context

C32_Witness ==
    /\ AllGuardsFalse
    /\ impl = "sm" /\ cfg = "guarded"
    /\ last.ev = "NEVER"
    /\ last.pre.exitFn.name = "k1"
    /\ exitFn.calls = 0


(***************************************************************************)
(* Publishing to subscribers: publish of the event bus, notifySubscribers  *)
(* of both generations of createStateMachine.                              *)
(***************************************************************************)
\* the last call published to the subscribers and returned
Published ==
    /\ impl \in {"bus", "sm", "v1"}
    /\ last.op \in {"publish", "send", "start"}
    /\ thrown = "none"

\* the subscriptions called by the publish of the last call itself, in the
\* order of the calls: those that existed when it began, and those added later
CalledBefore == SelectSeq(trace, LAMBDA e : e.k = "notify" /\ e.lvl = 0
                                             /\ e.sub <= Len(last.pre.subscribers))
CalledLate == SelectSeq(trace, LAMBDA e : e.k = "notify" /\ e.lvl = 0
                                           /\ e.sub > Len(last.pre.subscribers))

\* C33: a publish calls every subscribed callback exactly once per
\* subscription, in the order in which the callbacks were subscribed
C33_PublishOncePerSubscriptionInOrder ==
    Published =>
        [i \in 1..Len(CalledBefore) |-> CalledBefore[i].sub]
            = [i \in 1..Len(last.pre.subscribers) |-> i]

\* the same for the event bus and the first generation alone
C33_BusAndFirstGeneration ==
    (Published /\ impl \in {"bus", "v1"}) =>
        [i \in 1..Len(CalledBefore) |-> CalledBefore[i].sub]
            = [i \in 1..Len(last.pre.subscribers) |-> i]

\* C34: a callback subscribed from inside a subscriber's callback while a
\* publish is in progress is not called by that publish
C34_LateSubscriberNotCalled ==
    Published => Len(CalledLate) = 0

\* the same for a machine of stateMachine.ts that is in a single state
C34_SingleStateForEach ==
    (Published /\ impl = "sm" /\ ~currentState.arr) => Len(CalledLate) = 0


(***************************************************************************)
(* send called from inside entry hooks and actions of stateMachine.ts.     *)
(***************************************************************************)
\* the states of the configuration whose entry hook is the function `name`
EnteredBy(name) ==
    {state \in DOMAIN States(cfg) : StateDef(cfg, state).onEntry.name = name}

C35_StartWitness ==
    /\ impl = "sm" /\ cfg = "entry send"
    /\ last.op = "start"
    /\ Names(Entries("transition")) = <<"y">>
    /\ currentState = Single("y")


\* the machine as it was before the last call
MachineBefore ==
    [currentState |-> last.pre.currentState, context |-> last.pre.context,
     exitFn |-> last.pre.exitFn, subscribers |-> last.pre.subscribers,
     timeoutIds |-> last.pre.timeoutIds, timers |-> last.pre.timers,
     trace |-> <<>>, over |-> FALSE, thrown |-> "none"]

\* that machine after send(GO) with an action that sends nothing, followed by
\* send(FIN) from the caller
SentInSequence ==
    send(send(MachineBefore, "sequential", "GO", 0), "sequential", "FIN", 0)

\* the last call was send(GO) in state x of the machine whose action for GO
\* calls send(FIN)
NestedSendInAction ==
    /\ impl = "sm" /\ cfg = "nested"
    /\ thrown = "none"
    /\ last.op = "send" /\ last.ev = "GO"
    /\ last.pre.currentState = Single("x")

\* C36: a send made from inside a transition action has the effect of the same
\* send made right after the outer send returned: the final state, the context
\* and the armed timers are those of the outer transition followed by the
\* nested event
C36_NestedSendAsIfSentAfter ==
    NestedSendInAction =>
        /\ currentState = SentInSequence.currentState
        /\ context = SentInSequence.context
        /\ timeoutIds = SentInSequence.timeoutIds


\* both machines were given the same calls, and the last one has returned
SameCalls ==
    /\ impl \in {"sm", "v1"}
    /\ clone # <<>>
    /\ clone[1].mode = "both"
    /\ clone[1].pending = NoCall
    /\ thrown = "none"

\* the callbacks invoked during a call, with the state and context given to each
Delivered(calls) == SelectSeq(calls, LAMBDA call : call.k = "notify")

\* C37: two machines created from the same configuration and given the same
\* start and send calls and timer firings are after every step in the same
\* state, with equal contexts, and have delivered the same notifications.
C37_DispatchIsDeterministic ==
    SameCalls =>
        /\ clone[1].m.currentState = currentState
        /\ clone[1].m.context = context
        /\ Delivered(clone[1].m.trace) = Delivered(trace)

\* the same for the machines of stateMachine.ts, which copy config.context
C37_DeterministicWithOwnContext ==
    (SameCalls /\ impl = "sm") =>
        /\ clone[1].m.currentState = currentState
        /\ clone[1].m.context = context
        /\ clone[1].m.exitFn = exitFn
        /\ clone[1].m.timers = timers
        /\ Delivered(clone[1].m.trace) = Delivered(trace)

\* a call on the first machine of stateMachine.ts returned, or the same call
\* on the second
CallOnFirst == impl = "sm" /\ clone # <<>> /\ clone[1].pending = NoCall /\ clone' # <<>>
CallOnSecond == impl = "sm" /\ clone # <<>> /\ clone[1].pending # NoCall /\ clone' # <<>>

\* C38: createStateMachine works on its own deep copy of config.context: what
\* the actions of one machine change in its context shows neither in the
\* configuration object nor in the context of another machine created from
\* the same configuration.
C38_ContextIsOwnCopy ==
    [][ /\ CallOnFirst => /\ clone'[1].config = ConfigContext(cfg)
                          /\ clone'[1].m.context = clone[1].m.context
        /\ CallOnSecond => /\ clone'[1].config = ConfigContext(cfg)
                           /\ context' = context ]_vars

\* an action of the first machine changed its context, while config.context and
\* the context of the second machine are as they were
C38_Witness ==
    /\ impl = "sm"
    /\ clone # <<>>
    /\ clone[1].mode = "first"
    /\ last.op = "send"
    /\ context.count > last.pre.context.count
    /\ clone[1].config = ConfigContext(cfg)
    /\ clone[1].m.context = ConfigContext(cfg)

\* an action of the second machine changed its context and not that of the first
C38_SecondWitness ==
    /\ impl = "sm"
    /\ clone # <<>>
    /\ clone[1].mode = "both"
    /\ clone[1].pending = NoCall
    /\ clone[1].m.context.count > 0
    /\ clone[1].m.context = context
    /\ clone[1].config = ConfigContext(cfg)

\* the last call was a send that returned, to a first-generation machine whose
\* state is an array
ParallelSend ==
    /\ impl = "v1"
    /\ last.op = "send"
    /\ last.pre.currentState.arr

\* the target config.transitionMap declares for event in state, if it declares one
DeclaredTarget(state, event) ==
    IF state \in DOMAIN TransitionMap(cfg) /\ event \in DOMAIN TransitionMap(cfg)[state]
    THEN {TransitionMap(cfg)[state][event].ts[1].target}
    ELSE {}

\* C39: in the array form of createStateMachine, send preserves the number and
\* the order of the regions: the state array is as long as the initial one, and
\* entry i is the entry i of before the send or the target of the transition
\* taken from it.
C39_SendKeepsRegions ==
    /\ (impl = "v1" /\ InitialState(cfg).arr) =>
           /\ currentState.arr
           /\ Len(currentState.v) = Len(InitialState(cfg).v)
    /\ ParallelSend =>
           \A i \in 1..Len(last.pre.currentState.v) :
               \/ currentState.v[i] = last.pre.currentState.v[i]
               \/ /\ currentState.v[i] \in DeclaredTarget(last.pre.currentState.v[i], last.ev)
                  /\ \E j \in 1..Len(trace) :
                         trace[j].k = "transition" /\ trace[j].who = currentState.v[i]

\* a send moved one region and left another where it was
C39_Witness ==
    /\ ParallelSend
    /\ \E i, j \in 1..Len(currentState.v) :
           /\ i < j
           /\ currentState.v[i] # last.pre.currentState.v[i]
           /\ currentState.v[j] = last.pre.currentState.v[j]
           /\ currentState.v[j] # InitialState(cfg).v[j]

====
